---- MODULE Spec2Model ----
(***************************************************************************)
(* Staged sync: the Headers stage (crates/stages/src/stages/headers.rs)    *)
(* and the Senders stage (crates/stages/src/stages/senders.rs), each       *)
(* running over the transactional key/value store, driven by its caller.   *)
(***************************************************************************)
EXTENDS Integers, Sequences, FiniteSets, TLC

VARIABLES
    db,               \* committed tables
    tx,               \* tables as seen by the open read-write transaction
    progress,         \* persisted stage progress handed to execute as input
    pc,               \* position of the stage: idle, await_fc, stream, returned
    caller,           \* who is inside get_head_and_tip: execute or lookup
    input,            \* ExecInput.stage_progress of the running execute
    head,             \* sealed head of the sync range
    tip,              \* tip hash of the sync range
    stream,           \* what the downloader stream still has to yield
    current_progress, \* local of execute
    result,           \* what execute returned last
    lookup,           \* what a direct get_head_and_tip call returned last
    status,           \* last status pushed to the network handle
    forkchoice,       \* head_block_hash held by the consensus watch channel
    fcPublished,      \* the channel has been written at least once
    fcUnseen,         \* the current subscription has an unseen update
    fcClosed,         \* the sender of the forkchoice channel has been dropped
    dbAtEntry,        \* history: committed tables when execute was entered
    lastChunk,        \* history: the last chunk execute took from the stream
    commits,          \* history: chunk commits of the running execute
    chunks,           \* history: chunks the running execute took from the stream
    requested,        \* history: the running execute created a downloader stream
    fcConsulted,      \* history: the running call consulted the forkchoice channel
    undo,             \* history: tables and progress before the execute committed last
    resume,           \* history: where the interrupted execute would have ended
    cursors,          \* tables the suspended stage holds an open cursor over
    writes,           \* history: per written chunk, the Headers keys in the order written
    txAtChunk,        \* history: the tables of the transaction when the last chunk was taken
    sdb,              \* Senders: committed tables
    stx,              \* Senders: tables as seen by the open read-write transaction
    sprogress,        \* Senders: persisted stage progress
    previous_stage_progress, \* Senders: progress of the stage before it
    commit_threshold, \* Senders: SendersStage::commit_threshold
    batch_size,       \* Senders: SendersStage::batch_size
    sseed,            \* Senders history: the tables and the progress the stage started from
    spc,              \* Senders: position of the stage: idle, walk, returned, unwound
    sinput,           \* Senders: stage_progress of the running execute, unwind_to of unwind
    max_block_num,    \* Senders: local of execute
    start_tx_index,   \* Senders: local of execute
    end_tx_index,     \* Senders: local of execute
    entries,          \* Senders: what the walk over Transactions still has to yield
    sresult,          \* Senders: what execute or unwind returned last
    bodyReads,        \* Senders history: block bodies the running call looked up
    walked,           \* Senders history: the running execute walked Transactions
    sdbAtEntry,       \* Senders history: committed tables when the call was entered
    sundo,            \* Senders history: tables and progress before the execute committed last
    finished,         \* Senders: positions of the chunk whose recovery completed, in that order
    sappends,         \* Senders history: the calls of append of the running execute
    submission_id,    \* ParkedPool: the submission counter
    by_id,            \* ParkedPool: identifier -> record
    best,             \* ParkedPool: the ordered set, as the sequence of its records
    ordering,         \* ParkedPool: the ParkedOrd wrapper the pool is built over
    pool_pc,          \* ParkedPool: off, ready, or panicked
    last_call,        \* ParkedPool history: the last call, its result and the pool before it
    inserted,         \* ParkedPool history: identifier -> transaction added under it
    outcomes          \* the errors peer requests ended with, and how each was classified

vars == <<db, tx, progress, pc, caller, input, head, tip, stream, current_progress,
          result, lookup, status, forkchoice, fcPublished, fcUnseen, fcClosed,
          dbAtEntry, lastChunk, commits, chunks, requested, fcConsulted, undo, resume,
          cursors, writes, txAtChunk,
          sdb, stx, sprogress, previous_stage_progress, commit_threshold,
                   batch_size, sseed, spc, sinput, max_block_num,
          start_tx_index, end_tx_index, entries, sresult, bodyReads, walked, sdbAtEntry,
          sundo, finished, sappends,
          submission_id, by_id, best, ordering, pool_pc, last_call, inserted,
          outcomes>>

\* The variables of the Headers stage and those of the Senders stage
hvars == <<db, tx, progress, pc, caller, input, head, tip, stream, current_progress,
           result, lookup, status, forkchoice, fcPublished, fcUnseen, fcClosed,
           dbAtEntry, lastChunk, commits, chunks, requested, fcConsulted, undo, resume,
           cursors, writes, txAtChunk>>

svars == <<sdb, stx, sprogress, previous_stage_progress, commit_threshold,
                   batch_size, sseed, spc, sinput, max_block_num,
           start_tx_index, end_tx_index, entries, sresult, bodyReads, walked, sdbAtEntry,
           sundo, finished, sappends>>

\* The variables of the parked pool and those of the peer requests
pvars == <<submission_id, by_id, best, ordering, pool_pc, last_call, inserted>>

rvars == <<outcomes>>

----------------------------------------------------------------------------
(* Bounds *)

MaxBlock == 4
CommitThreshold == 2
MaxSeed == 1
MaxBody == 2
MaxTxCount == 3
SendersCommitThreshold == 1
BatchSize == 2
MaxSendersCommitThreshold == 2

\* Block numbers are unsigned machine integers; the model keeps their arithmetic in a
\* narrower width, wide enough for every block number it stores
U64Modulus == 8

----------------------------------------------------------------------------
(* Header universe: chain A from genesis, chain B forking off genesis *)

ZeroHash == 0

HashA(n) == 100 + n
HashB(n) == 200 + n

Hashes == {HashA(n) : n \in 0..MaxBlock} \cup {HashB(n) : n \in 1..MaxBlock}

\* Headers no chain holds: the parent_hash names the block of chain A two numbers below
HashC(n) == 300 + n

UnchainedHashes == {HashC(n) : n \in 2..MaxBlock}

OnA(h) == h < 200

NumberOf(h) == h % 100

ParentOf(h) ==
    IF h \in UnchainedHashes THEN HashA(NumberOf(h) - 2)
    ELSE IF NumberOf(h) = 0 THEN ZeroHash
    ELSE IF OnA(h) \/ NumberOf(h) = 1 THEN HashA(NumberOf(h) - 1)
    ELSE HashB(NumberOf(h) - 1)

DifficultyOf(h) == IF OnA(h) THEN 1 + NumberOf(h) ELSE 2 + 2 * NumberOf(h)

\* Header: the unsealed header record
HeaderOf(h) ==
    [number |-> NumberOf(h), parent_hash |-> ParentOf(h), difficulty |-> DifficultyOf(h)]

\* Header::seal / SealedHeader::hash: the hash is computed from the header's content
HashOfHeader(hdr) == CHOOSE h \in Hashes \cup UnchainedHashes : HeaderOf(h) = hdr

Seal(hdr) ==
    [hash |-> HashOfHeader(hdr), number |-> hdr.number,
     parent_hash |-> hdr.parent_hash, difficulty |-> hdr.difficulty]

\* SealedHeader::new(header, hash)
SealedNew(hdr, h) ==
    [hash |-> h, number |-> hdr.number,
     parent_hash |-> hdr.parent_hash, difficulty |-> hdr.difficulty]

Unseal(s) ==
    [number |-> s.number, parent_hash |-> s.parent_hash, difficulty |-> s.difficulty]

----------------------------------------------------------------------------
(* Tables *)

EmptyTable == [k \in {} |-> 0]

Put(t, k, v) == [x \in (DOMAIN t) \cup {k} |-> IF x = k THEN v ELSE t[x]]

EmptyDb ==
    [CanonicalHeaders |-> EmptyTable, HeaderNumbers |-> EmptyTable,
     Headers |-> EmptyTable, HeaderTD |-> EmptyTable]

\* Composite key ordering: by number, then by hash
KeyLess(a, b) == a[1] < b[1] \/ (a[1] = b[1] /\ a[2] < b[2])

KeyLeq(a, b) == a = b \/ KeyLess(a, b)

MinKey(S) == CHOOSE a \in S : \A b \in S : KeyLeq(a, b)

RECURSIVE SortedKeys(_)
SortedKeys(S) ==
    IF S = {} THEN <<>>
    ELSE LET m == MinKey(S) IN <<m>> \o SortedKeys(S \ {m})

MaxNat(a, b) == IF a >= b THEN a ELSE b

SetMax(S) == CHOOSE a \in S : \A b \in S : b <= a

SetMin(S) == CHOOSE a \in S : \A b \in S : a <= b

----------------------------------------------------------------------------
(* Values *)

None == [some |-> FALSE]

Some(v) == [some |-> TRUE, val |-> v]

UnwrapOrDefault(o) == IF o.some THEN o.val ELSE 0

NoResult == [kind |-> "None"]

DatabaseIntegrity(e, n) == [kind |-> "DatabaseIntegrity", error |-> e, number |-> n]

\* DownloadError: Timeout, HeaderValidation { hash, error }, or a request error
ConsensusErrors == {"ParentHashMismatch", "TimestampIsInPast"}

DownloadErrors(h) ==
    {[kind |-> "Timeout"], [kind |-> "RequestError", error |-> "BadResponse"]}
    \cup {[kind |-> "HeaderValidation", hash |-> h, error |-> e] : e \in ConsensusErrors}

OkItem(h) == [ok |-> TRUE, header |-> Seal(HeaderOf(h))]

ErrItem(e) == [ok |-> FALSE, error |-> e]

Min2(a, b) == IF a <= b THEN a ELSE b

----------------------------------------------------------------------------
(* Transaction wrapper and cursor primitives *)

\* Transaction::get_block_numhash: block number -> (number, hash) composite key
GetBlockNumHash(t, number) ==
    IF number \in DOMAIN t.CanonicalHeaders
    THEN [ok |-> TRUE, key |-> <<number, t.CanonicalHeaders[number]>>]
    ELSE [ok |-> FALSE, err |-> DatabaseIntegrity("CanonicalHeader", number)]

\* DbCursorRW::append: accepted only past the last key of the table
AppendAccepts(table, key) ==
    \A k \in DOMAIN table : KeyLess(k, key)

\* ensure_parent(header, parent)
EnsureParent(header, parent) ==
    /\ header.parent_hash = parent.hash
    /\ header.number = parent.number + 1

----------------------------------------------------------------------------
(* The downloader: headers in descending order from the tip down to the     *)
(* local head, each linked to the one before it, or an error in their place *)

RECURSIVE Descend(_, _)
Descend(h, headNumber) ==
    IF h = ZeroHash \/ NumberOf(h) <= headNumber THEN <<>>
    ELSE <<h>> \o Descend(ParentOf(h), headNumber)

OkItems(hs) == [i \in 1..Len(hs) |-> OkItem(hs[i])]

DownloaderStreams(hd, t) ==
    LET full == Descend(t, hd.number)
        n == Len(full)
        linked == n > 0 /\ ParentOf(full[n]) = hd.hash
        cut == IF n = 0 THEN {0} ELSE 0..(n - 1)
        failing == UNION {{OkItems(SubSeq(full, 1, k)) \o <<ErrItem(e)>> :
                                e \in DownloadErrors(IF n = 0 THEN t ELSE full[k + 1])} :
                          k \in cut}
    IN  IF linked THEN {OkItems(full)} \cup failing ELSE failing

\* What a downloader that breaks its contract may hand over instead of the stream s:
\* s with one of its items replaced by another header
DeviatingStreams(s) ==
    {[s EXCEPT ![i] = OkItem(h)] : i \in 1..Len(s), h \in Hashes \cup UnchainedHashes} \ {s}

----------------------------------------------------------------------------
(* HeaderStage helpers *)

\* HeaderStage::update_head
UpdateHead(t, height) ==
    LET block_key == GetBlockNumHash(t, height)
    IN  IF ~block_key.ok THEN [ok |-> FALSE, err |-> block_key.err]
        ELSE IF block_key.key \notin DOMAIN t.HeaderTD
        THEN [ok |-> FALSE, err |-> DatabaseIntegrity("TotalDifficulty", height)]
        ELSE [ok |-> TRUE,
              status |-> [height |-> height, hash |-> block_key.key[2],
                          td |-> t.HeaderTD[block_key.key]]]

MissingHeader(number, hash) ==
    [kind |-> "DatabaseIntegrity", error |-> "Header", number |-> number, hash |-> hash]

\* The error of get_head_and_tip when the canonical cursor finds nothing at the progress
MissingCanonicalWrongVariant(stage_progress) ==
    DatabaseIntegrity("TotalDifficulty", stage_progress)

MissingCanonical(stage_progress) ==
    DatabaseIntegrity("CanonicalHeader", stage_progress)

\* The match that decides the tip in get_head_and_tip; next_header is the header the
\* canonical cursor finds after the head, if any
DecideTipOwnHash(next_header, next_hash, stage_progress, hd) ==
    IF next_header.some /\ stage_progress + 1 # next_header.val.number
    THEN [kind |-> "Tip", head |-> hd, tip |-> next_hash]
    ELSE IF ~next_header.some THEN [kind |-> "Forkchoice", head |-> hd]
    ELSE [kind |-> "Err", err |-> [kind |-> "StageProgress", block |-> stage_progress]]

DecideTipNoGuard(next_header, next_hash, stage_progress, hd) ==
    IF next_header.some
    THEN [kind |-> "Tip", head |-> hd, tip |-> next_header.val.parent_hash]
    ELSE [kind |-> "Forkchoice", head |-> hd]

DecideTip(next_header, next_hash, stage_progress, hd) ==
    IF next_header.some /\ stage_progress + 1 # next_header.val.number
    THEN [kind |-> "Tip", head |-> hd, tip |-> next_header.val.parent_hash]
    ELSE IF ~next_header.some THEN [kind |-> "Forkchoice", head |-> hd]
    ELSE [kind |-> "Err", err |-> [kind |-> "StageProgress", block |-> stage_progress]]

\* The cursors get_head_and_tip creates on entry and drops on return
HeadAndTipCursors == {"CanonicalHeaders", "Headers"}

\* HeaderStage::get_head_and_tip, up to the point where it either decides the tip,
\* fails, or has to wait for the forkchoice state
GetHeadAndTip(t, stage_progress) ==
    IF stage_progress \notin DOMAIN t.CanonicalHeaders
    THEN [kind |-> "Err", err |-> MissingCanonical(stage_progress)]
    ELSE
    LET head_num == stage_progress
        head_hash == t.CanonicalHeaders[stage_progress]
    IN  IF <<head_num, head_hash>> \notin DOMAIN t.Headers
        THEN [kind |-> "Err", err |-> MissingHeader(head_num, head_hash)]
        ELSE
        LET hd == SealedNew(t.Headers[<<head_num, head_hash>>], head_hash)
            following == {n \in DOMAIN t.CanonicalHeaders : n > stage_progress}
        IN  IF following = {} THEN DecideTip(None, ZeroHash, stage_progress, hd)
            ELSE
            LET next_num == SetMin(following)
                next_hash == t.CanonicalHeaders[next_num]
            IN  IF <<next_num, next_hash>> \notin DOMAIN t.Headers
                THEN [kind |-> "Err", err |-> MissingHeader(next_num, next_hash)]
                ELSE DecideTip(Some(t.Headers[<<next_num, next_hash>>]), next_hash,
                               stage_progress, hd)

\* The test of the loop in HeaderStage::next_fork_choice_state
\* (a variant that accepts the hash of the current head)
ForkchoiceAcceptedNonZero(head_block_hash, head_hash) ==
    head_block_hash # ZeroHash

\* (a variant that accepts the zero hash)
ForkchoiceAcceptedOther(head_block_hash, head_hash) ==
    head_block_hash # head_hash

ForkchoiceAccepted(head_block_hash, head_hash) ==
    head_block_hash # ZeroHash /\ head_block_hash # head_hash

\* (a variant that compares the block numbers only)
ValidateHeaderResponseNumbers(headers) ==
    \A i \in 1..(Len(headers) - 1) : headers[i].number = headers[i + 1].number + 1

\* HeaderStage::validate_header_response
ValidateHeaderResponse(headers) ==
    \A i \in 1..(Len(headers) - 1) : EnsureParent(headers[i], headers[i + 1])

\* The loop of HeaderStage::write_headers, from headers[i] down to headers[1].
\* overwrite: what a cursor insert does when the key is already present.
RECURSIVE WriteHeadersFrom(_, _, _, _, _)
WriteHeadersFrom(t, headers, i, latest, overwrite) ==
    IF i = 0 THEN [ok |-> TRUE, tx |-> t, latest |-> latest]
    ELSE
    LET header == headers[i]
    IN  IF header.number = 0
        THEN WriteHeadersFrom(t, headers, i - 1, latest, overwrite)
        ELSE
        LET block_hash == header.hash
            key == <<header.number, block_hash>>
            t1 == [t EXCEPT !.HeaderNumbers = Put(@, block_hash, header.number)]
            t2 == [t1 EXCEPT !.Headers = Put(@, key, Unseal(header))]
            t3 == [t2 EXCEPT !.CanonicalHeaders = Put(@, key[1], key[2])]
        IN  IF key \in DOMAIN t1.Headers /\ ~overwrite
            THEN [ok |-> FALSE, tx |-> t1, err |-> [kind |-> "Database"]]
            ELSE IF key[1] \in DOMAIN t2.CanonicalHeaders /\ ~overwrite
            THEN [ok |-> FALSE, tx |-> t2, err |-> [kind |-> "Database"]]
            ELSE WriteHeadersFrom(t3, headers, i - 1, Some(header.number), overwrite)

WriteHeadersNoNumbers(t, headers, overwrite) ==
    LET w == WriteHeadersFrom(t, headers, Len(headers), None, overwrite)
    IN  [w EXCEPT !.tx.HeaderNumbers = t.HeaderNumbers]

\* HeaderStage::write_headers
WriteHeaders(t, headers, overwrite) ==
    WriteHeadersFrom(t, headers, Len(headers), None, overwrite)

\* The composite keys HeaderStage::write_headers inserts, in the order it inserts them
RECURSIVE WriteOrderFrom(_, _)
WriteOrderFrom(headers, i) ==
    IF i = 0 THEN <<>>
    ELSE IF headers[i].number = 0 THEN WriteOrderFrom(headers, i - 1)
    ELSE <<<<headers[i].number, headers[i].hash>>>> \o WriteOrderFrom(headers, i - 1)

\* (a variant that writes the headers in the order of the stream)
WriteOrderOfStream(headers) ==
    LET kept == SelectSeq(headers, LAMBDA h : h.number # 0)
    IN  [i \in 1..Len(kept) |-> <<kept[i].number, kept[i].hash>>]

WriteOrder(headers) == WriteOrderFrom(headers, Len(headers))

\* The walk of HeaderStage::write_td over keys[i..]
RECURSIVE WriteTdFrom(_, _, _, _)
WriteTdFrom(t, keys, i, td) ==
    IF i > Len(keys) THEN [ok |-> TRUE, tx |-> t]
    ELSE
    LET key == keys[i]
        td2 == td + t.Headers[key].difficulty
    IN  IF ~AppendAccepts(t.HeaderTD, key)
        THEN [ok |-> FALSE, tx |-> t, err |-> [kind |-> "Database"]]
        ELSE WriteTdFrom([t EXCEPT !.HeaderTD = Put(@, key, td2)], keys, i + 1, td2)

WriteTdFromZero(t, hd) ==
    LET head_key == <<hd.number, hd.hash>>
    IN  IF head_key \notin DOMAIN t.HeaderTD
        THEN [ok |-> FALSE, tx |-> t, err |-> DatabaseIntegrity("TotalDifficulty", hd.number)]
        ELSE
        LET start_key == GetBlockNumHash(t, hd.number + 1)
        IN  IF ~start_key.ok THEN [ok |-> FALSE, tx |-> t, err |-> start_key.err]
            ELSE WriteTdFrom(t,
                    SortedKeys({k \in DOMAIN t.Headers : KeyLeq(start_key.key, k)}),
                    1, 0)

\* (a variant that walks from the head itself and writes with put)
RECURSIVE WriteTdPutFrom(_, _, _, _)
WriteTdPutFrom(t, keys, i, td) ==
    IF i > Len(keys) THEN [ok |-> TRUE, tx |-> t]
    ELSE WriteTdPutFrom([t EXCEPT !.HeaderTD = Put(@, keys[i], td + t.Headers[keys[i]].difficulty)],
                        keys, i + 1, td + t.Headers[keys[i]].difficulty)

WriteTdFromHead(t, hd) ==
    LET head_key == <<hd.number, hd.hash>>
    IN  IF head_key \notin DOMAIN t.HeaderTD
        THEN [ok |-> FALSE, tx |-> t, err |-> DatabaseIntegrity("TotalDifficulty", hd.number)]
        ELSE WriteTdPutFrom(t, SortedKeys({k \in DOMAIN t.Headers : KeyLeq(head_key, k)}),
                            1, t.HeaderTD[head_key])

\* HeaderStage::write_td
WriteTd(t, hd) ==
    LET head_key == <<hd.number, hd.hash>>
    IN  IF head_key \notin DOMAIN t.HeaderTD
        THEN [ok |-> FALSE, tx |-> t, err |-> DatabaseIntegrity("TotalDifficulty", hd.number)]
        ELSE
        LET start_key == GetBlockNumHash(t, hd.number + 1)
        IN  IF ~start_key.ok THEN [ok |-> FALSE, tx |-> t, err |-> start_key.err]
            ELSE WriteTdFrom(t,
                    SortedKeys({k \in DOMAIN t.Headers : KeyLeq(start_key.key, k)}),
                    1, t.HeaderTD[head_key])

\* headers.into_iter().collect::<Result<Vec<_>, _>>()
CollectChunk(chunk) ==
    LET failed == {i \in 1..Len(chunk) : ~chunk[i].ok}
    IN  IF failed = {}
        THEN [ok |-> TRUE, res |-> [i \in 1..Len(chunk) |-> chunk[i].header]]
        ELSE [ok |-> FALSE, error |-> chunk[SetMin(failed)].error]

DownloadErrorResultCurrent(e, stage_progress, current) ==
    IF e.kind = "Timeout" THEN [kind |-> "Recoverable", error |-> [kind |-> "Timeout"]]
    ELSE IF e.kind = "HeaderValidation"
    THEN [kind |-> "Validation", block |-> current, error |-> e.error]
    ELSE [kind |-> "Recoverable", error |-> e]

DownloadErrorResultOnlyTimeout(e, stage_progress, current) ==
    IF e.kind = "Timeout" THEN [kind |-> "Recoverable", error |-> [kind |-> "Timeout"]]
    ELSE [kind |-> "Validation", block |-> stage_progress, error |-> e.error]

\* The Err arm of the match in execute
DownloadErrorResult(e, stage_progress, current) ==
    IF e.kind = "Timeout" THEN [kind |-> "Recoverable", error |-> [kind |-> "Timeout"]]
    ELSE IF e.kind = "HeaderValidation"
    THEN [kind |-> "Validation", block |-> stage_progress, error |-> e.error]
    ELSE [kind |-> "Recoverable", error |-> e]

\* (a variant that writes and commits the headers received before the error)
ProcessChunkWritePrefix(t, chunk, stage_progress, current, overwrite) ==
    LET failed == {i \in 1..Len(chunk) : ~chunk[i].ok}
        good == IF failed = {} THEN Len(chunk) ELSE SetMin(failed) - 1
        written == WriteHeaders(t, [i \in 1..good |-> chunk[i].header], overwrite)
    IN  IF failed = {}
        THEN [ret |-> FALSE, commit |-> TRUE, tx |-> written.tx,
              current |-> MaxNat(current, UnwrapOrDefault(written.latest)),
              result |-> NoResult]
        ELSE [ret |-> TRUE, commit |-> TRUE, tx |-> written.tx, current |-> current,
              result |-> DownloadErrorResult(chunk[SetMin(failed)].error,
                                             stage_progress, current)]

\* (a variant that writes the chunk and leaves the commit to the caller)
ProcessChunkNoCommit(t, chunk, stage_progress, current, overwrite) ==
    LET collected == CollectChunk(chunk)
    IN  IF ~collected.ok
        THEN [ret |-> TRUE, commit |-> FALSE, tx |-> t, current |-> current,
              result |-> DownloadErrorResult(collected.error, stage_progress, current)]
        ELSE
        LET written == WriteHeaders(t, collected.res, overwrite)
        IN  [ret |-> ~written.ok, commit |-> FALSE, tx |-> written.tx,
             current |-> IF written.ok
                         THEN MaxNat(current, UnwrapOrDefault(written.latest))
                         ELSE current,
             result |-> IF written.ok THEN NoResult ELSE written.err]

\* One iteration of the while loop of execute over a chunk of the stream
ProcessChunk(t, chunk, stage_progress, current, overwrite) ==
    LET collected == CollectChunk(chunk)
    IN  IF ~collected.ok
        THEN [ret |-> TRUE, commit |-> FALSE, tx |-> t, current |-> current,
              result |-> DownloadErrorResult(collected.error, stage_progress, current)]
        ELSE IF ~ValidateHeaderResponse(collected.res)
        THEN [ret |-> TRUE, commit |-> FALSE, tx |-> t, current |-> current,
              result |-> [kind |-> "Download"]]
        ELSE
        LET written == WriteHeaders(t, collected.res, overwrite)
        IN  IF ~written.ok
            THEN [ret |-> TRUE, commit |-> FALSE, tx |-> written.tx, current |-> current,
                  result |-> written.err]
            ELSE [ret |-> FALSE, commit |-> TRUE, tx |-> written.tx,
                  current |-> MaxNat(current, UnwrapOrDefault(written.latest)),
                  result |-> NoResult]

FinishExecuteNoCursor(t, hd, current) ==
    LET written == WriteTd(t, hd)
    IN  IF ~written.ok THEN [tx |-> written.tx, result |-> written.err]
        ELSE [tx |-> written.tx,
              result |-> [kind |-> "Ok", stage_progress |-> current,
                          reached_tip |-> TRUE, done |-> TRUE]]

FinishExecuteSkipTd(t, hd, current) ==
    [tx |-> t,
     result |-> [kind |-> "Ok",
                 stage_progress |->
                    MaxNat(current, IF DOMAIN t.CanonicalHeaders = {} THEN 0
                                    ELSE SetMax(DOMAIN t.CanonicalHeaders)),
                 reached_tip |-> TRUE, done |-> TRUE]]

\* (a variant that reports the head of the sync range as the progress)
FinishExecuteHead(t, hd, current) ==
    LET written == WriteTd(t, hd)
    IN  IF ~written.ok THEN [tx |-> written.tx, result |-> written.err]
        ELSE [tx |-> written.tx,
              result |-> [kind |-> "Ok", stage_progress |-> hd.number,
                          reached_tip |-> TRUE, done |-> TRUE]]

\* The end of execute: the total difficulty pass and the output
FinishExecute(t, hd, current) ==
    LET written == WriteTd(t, hd)
    IN  IF ~written.ok THEN [tx |-> written.tx, result |-> written.err]
        ELSE
        LET last == IF DOMAIN written.tx.CanonicalHeaders = {} THEN 0
                    ELSE SetMax(DOMAIN written.tx.CanonicalHeaders)
        IN  [tx |-> written.tx,
             result |-> [kind |-> "Ok", stage_progress |-> MaxNat(current, last),
                         reached_tip |-> TRUE, done |-> TRUE]]

----------------------------------------------------------------------------
(* HeaderStage::unwind over the unwind helpers of the transaction wrapper *)

\* The rows of a table whose key satisfies keep
Restrict(table, keep) == [k \in keep |-> table[k]]

\* Transaction::unwind_table_by_num: remove the rows with key > num
UnwindTableByNum(table, num) ==
    Restrict(table, {k \in DOMAIN table : k <= num})

\* Transaction::unwind_table_by_num_hash: remove the rows whose key number is > num
UnwindTableByNumHash(table, num) ==
    Restrict(table, {k \in DOMAIN table : k[1] <= num})

\* Transaction::unwind_table_by_walker::<T1, T2>: walk T1 from start_at and delete from
\* T2 the row whose key is the walked value
UnwindTableByWalker(t1, t2, start_at) ==
    Restrict(t2, DOMAIN t2 \ {t1[k] : k \in {j \in DOMAIN t1 : j >= start_at}})

\* (a variant without the walk that removes the HeaderNumbers rows)
HeaderUnwindKeepNumbers(t, unwind_to) ==
    LET t2 == [t EXCEPT !.CanonicalHeaders = UnwindTableByNum(@, unwind_to)]
        t3 == [t2 EXCEPT !.Headers = UnwindTableByNumHash(@, unwind_to)]
        t4 == [t3 EXCEPT !.HeaderTD = UnwindTableByNumHash(@, unwind_to)]
    IN  [tx |-> t4, result |-> [kind |-> "Unwound", stage_progress |-> unwind_to]]

\* (a variant whose walk starts at unwind_to)
HeaderUnwindFromTarget(t, unwind_to) ==
    LET t1 == [t EXCEPT !.HeaderNumbers =
                    UnwindTableByWalker(t.CanonicalHeaders, @, unwind_to)]
        t2 == [t1 EXCEPT !.CanonicalHeaders = UnwindTableByNum(@, unwind_to)]
        t3 == [t2 EXCEPT !.Headers = UnwindTableByNumHash(@, unwind_to)]
        t4 == [t3 EXCEPT !.HeaderTD = UnwindTableByNumHash(@, unwind_to)]
    IN  [tx |-> t4, result |-> [kind |-> "Unwound", stage_progress |-> unwind_to]]

\* HeaderStage::unwind
HeaderUnwind(t, unwind_to) ==
    LET t1 == [t EXCEPT !.HeaderNumbers =
                    UnwindTableByWalker(t.CanonicalHeaders, @,
                                        (unwind_to + 1) % U64Modulus)]
        t2 == [t1 EXCEPT !.CanonicalHeaders = UnwindTableByNum(@, unwind_to)]
        t3 == [t2 EXCEPT !.Headers = UnwindTableByNumHash(@, unwind_to)]
        t4 == [t3 EXCEPT !.HeaderTD = UnwindTableByNumHash(@, unwind_to)]
    IN  [tx |-> t4, result |-> [kind |-> "Unwound", stage_progress |-> unwind_to]]

\* Where execute ends when it runs on from a chunk commit with what the stream still
\* has to yield, every item of it a header; last: the commit was the last one, only the
\* total difficulty pass was left
RunOn(t, rest, hd, current) ==
    LET written == WriteHeaders(t, [i \in 1..Len(rest) |-> rest[i].header], FALSE)
        out == FinishExecute(written.tx, hd,
                             MaxNat(current, UnwrapOrDefault(written.latest)))
    IN  [db |-> out.tx, result |-> out.result, last |-> rest = <<>>]

----------------------------------------------------------------------------
(* The Senders stage: tables BlockBodies (by block number), Transactions and *)
(* TxSenders (by transaction index)                                          *)

EmptySendersDb ==
    [BlockBodies |-> EmptyTable, Transactions |-> EmptyTable, TxSenders |-> EmptyTable]

\* The signer a valid signature recovers to
Signer(transaction) == 1000 + 2 * transaction.nonce + (transaction.v - 27)

\* Transaction::recover_signer: None for a signature that does not recover
RecoverSigner(transaction) ==
    IF transaction.v \in {27, 28} THEN Some(Signer(transaction)) ELSE None

\* Transaction::get_block_body_by_num; BlockBodies is keyed here by the block number,
\* the hash of its composite key being the canonical one
GetBlockBodyByNum(t, number) ==
    IF number \in DOMAIN t.BlockBodies
    THEN [ok |-> TRUE, body |-> t.BlockBodies[number]]
    ELSE [ok |-> FALSE, err |-> DatabaseIntegrity("BlockBody", number)]

\* StoredBlockBody::last_tx_index, the index before start_tx_id for an empty body
LastTxIndex(body) == body.start_tx_id + body.tx_count - 1

\* DbCursorRW::append on a table keyed by transaction index
AppendAcceptsIndex(table, key) ==
    \A k \in DOMAIN table : k < key

\* The keys of Transactions from start on, in order, taken while they are <= end
RECURSIVE WalkFrom(_, _, _)
WalkFrom(table, start, end) ==
    LET later == {k \in DOMAIN table : k >= start}
    IN  IF later = {} THEN <<>>
        ELSE LET k == SetMin(later)
             IN  IF k <= end THEN <<<<k, table[k]>>>> \o WalkFrom(table, k + 1, end)
                 ELSE <<>>

SendersOk(progress_out, done) ==
    [kind |-> "Ok", stage_progress |-> progress_out, reached_tip |-> done, done |-> done]

\* From<SendersStageError> for StageError
SenderRecovery(id) ==
    [kind |-> "Fatal", error |-> [kind |-> "SenderRecovery", tx |-> id]]

\* (a variant that looks up the first block body before it compares max_block)
SendersBeginAlwaysReads(t, progress_in, previous) ==
    LET max_block == Min2(previous, progress_in + commit_threshold)
        first == GetBlockBodyByNum(t, progress_in + 1)
    IN  [ret |-> TRUE,
         result |-> IF max_block <= progress_in \/ first.ok
                    THEN SendersOk(MaxNat(max_block, progress_in), TRUE) ELSE first.err,
         reads |-> 1, max |-> max_block, start |-> 0, end |-> 0, entries |-> <<>>]

\* (a variant that does not cap max_block by the progress of the previous stage)
SendersBeginUncapped(t, progress_in, previous) ==
    LET max_block == progress_in + commit_threshold
        first == GetBlockBodyByNum(t, progress_in + 1)
        last == GetBlockBodyByNum(t, max_block)
    IN  IF ~first.ok \/ ~last.ok
        THEN [ret |-> TRUE, result |-> IF ~first.ok THEN first.err ELSE last.err,
              reads |-> 2, max |-> max_block, start |-> 0, end |-> 0, entries |-> <<>>]
        ELSE IF first.body.start_tx_id > LastTxIndex(last.body)
        THEN [ret |-> TRUE, result |-> SendersOk(max_block, TRUE), reads |-> 2,
              max |-> max_block, start |-> first.body.start_tx_id,
              end |-> LastTxIndex(last.body), entries |-> <<>>]
        ELSE [ret |-> FALSE, result |-> NoResult, reads |-> 2, max |-> max_block,
              start |-> first.body.start_tx_id, end |-> LastTxIndex(last.body),
              entries |-> WalkFrom(t.Transactions, first.body.start_tx_id,
                                   LastTxIndex(last.body))]

\* (a variant whose walk ends with the last transaction of block stage_progress + 1)
SendersBeginFirstBody(t, progress_in, previous) ==
    LET max_block == Min2(previous, progress_in + commit_threshold)
    IN  IF max_block <= progress_in
        THEN [ret |-> TRUE, result |-> SendersOk(progress_in, TRUE), reads |-> 0,
              max |-> max_block, start |-> 0, end |-> 0, entries |-> <<>>]
        ELSE
        LET first == GetBlockBodyByNum(t, progress_in + 1)
            last == GetBlockBodyByNum(t, max_block)
        IN  IF ~first.ok \/ ~last.ok
            THEN [ret |-> TRUE, result |-> IF ~first.ok THEN first.err ELSE last.err,
                  reads |-> IF ~first.ok THEN 1 ELSE 2,
                  max |-> max_block, start |-> 0, end |-> 0, entries |-> <<>>]
            ELSE
            LET start == first.body.start_tx_id
                end == LastTxIndex(first.body)
            IN  IF start > end
                THEN [ret |-> TRUE, result |-> SendersOk(max_block, TRUE), reads |-> 2,
                      max |-> max_block, start |-> start, end |-> end, entries |-> <<>>]
                ELSE [ret |-> FALSE, result |-> NoResult, reads |-> 2,
                      max |-> max_block, start |-> start, end |-> end,
                      entries |-> WalkFrom(t.Transactions, start, end)]

\* SendersStage::execute up to the walk over Transactions
SendersBegin(t, progress_in, previous) ==
    LET max_block == Min2(previous, progress_in + commit_threshold)
    IN  IF max_block <= progress_in
        THEN [ret |-> TRUE, result |-> SendersOk(progress_in, TRUE), reads |-> 0,
              max |-> max_block, start |-> 0, end |-> 0, entries |-> <<>>]
        ELSE
        LET first == GetBlockBodyByNum(t, progress_in + 1)
            last == GetBlockBodyByNum(t, max_block)
        IN  IF ~first.ok
            THEN [ret |-> TRUE, result |-> first.err, reads |-> 1,
                  max |-> max_block, start |-> 0, end |-> 0, entries |-> <<>>]
            ELSE IF ~last.ok
            THEN [ret |-> TRUE, result |-> last.err, reads |-> 2,
                  max |-> max_block, start |-> first.body.start_tx_id, end |-> 0,
                  entries |-> <<>>]
            ELSE
            LET start == first.body.start_tx_id
                end == LastTxIndex(last.body)
            IN  IF start > end
                THEN [ret |-> TRUE, result |-> SendersOk(max_block, TRUE), reads |-> 2,
                      max |-> max_block, start |-> start, end |-> end, entries |-> <<>>]
                ELSE [ret |-> FALSE, result |-> NoResult, reads |-> 2,
                      max |-> max_block, start |-> start, end |-> end,
                      entries |-> WalkFrom(t.Transactions, start, end)]

\* recovered.into_iter().try_for_each(|(id, sender)| senders_cursor.append(id, sender));
\* calls: the number of calls of append made
RECURSIVE AppendSenders(_, _, _)
AppendSenders(t, recovered, i) ==
    IF i > Len(recovered) THEN [ok |-> TRUE, tx |-> t, calls |-> Len(recovered)]
    ELSE IF ~AppendAcceptsIndex(t.TxSenders, recovered[i][1])
    THEN [ok |-> FALSE, tx |-> t, err |-> [kind |-> "Database"], calls |-> i]
    ELSE AppendSenders([t EXCEPT !.TxSenders = Put(@, recovered[i][1], recovered[i][2])],
                       recovered, i + 1)

\* The keys of the first calls of append
AppendKeys(recovered, calls) == [i \in 1..calls |-> recovered[i][1]]

\* The entries of a chunk whose signer does not recover
FailedIn(chunk) == {i \in 1..Len(chunk) : ~RecoverSigner(chunk[i][2]).some}

\* The positions whose recovery an order of completion holds, lowest first
RECURSIVE InOrder(_)
InOrder(positions) ==
    IF positions = {} THEN <<>>
    ELSE <<SetMin(positions)>> \o InOrder(positions \ {SetMin(positions)})

\* The places of an order of completion at which a recovery that failed stands
FailedAt(chunk, done) == {k \in 1..Len(done) : done[k] \in FailedIn(chunk)}

\* (a variant that collects the signers in the order the workers completed them)
ParCollectArrival(chunk, done) ==
    IF FailedAt(chunk, done) # {}
    THEN [ok |-> FALSE, err |-> SenderRecovery(chunk[done[SetMin(FailedAt(chunk, done))]][1])]
    ELSE [ok |-> TRUE,
          val |-> [i \in 1..Len(done) |->
                      <<chunk[done[i]][1], RecoverSigner(chunk[done[i]][2]).val>>]]

\* chunk.into_par_iter().map(..).collect::<Result<Vec<_>, StageError>>() over the
\* recoveries in their order of completion done: the error of the failure that
\* completed first, or every pair at the position of its entry
ParCollect(chunk, done) ==
    IF FailedAt(chunk, done) # {}
    THEN [ok |-> FALSE, err |-> SenderRecovery(chunk[done[SetMin(FailedAt(chunk, done))]][1])]
    ELSE LET slots == InOrder({done[k] : k \in 1..Len(done)})
         IN  [ok |-> TRUE,
              val |-> [i \in 1..Len(slots) |->
                          <<chunk[slots[i]][1], RecoverSigner(chunk[slots[i]][2]).val>>]]

\* (a variant that appends the signers recovered before the first failure)
SendersChunkAppendPrefix(t, chunk, done) ==
    LET good == [i \in 1..(SetMin(FailedIn(chunk) \cup {Len(chunk) + 1}) - 1) |->
                    <<chunk[i][1], RecoverSigner(chunk[i][2]).val>>]
        appended == AppendSenders(t, good, 1)
        collected == ParCollect(chunk, done)
    IN  IF ~collected.ok
        THEN [ret |-> TRUE, tx |-> appended.tx, result |-> collected.err,
              calls |-> AppendKeys(good, appended.calls)]
        ELSE [ret |-> FALSE, tx |-> appended.tx, result |-> NoResult,
              calls |-> AppendKeys(good, appended.calls)]

\* (a variant that writes the signers of the chunk into an emptied table)
SendersChunkRewrite(t, chunk, done) ==
    LET collected == ParCollect(chunk, done)
    IN  IF ~collected.ok
        THEN [ret |-> TRUE, tx |-> t, result |-> collected.err, calls |-> <<>>]
        ELSE [ret |-> FALSE,
              tx |-> [t EXCEPT !.TxSenders =
                        [id \in {chunk[i][1] : i \in 1..Len(chunk)} |->
                            RecoverSigner(t.Transactions[id]).val]],
              result |-> NoResult,
              calls |-> [i \in 1..Len(chunk) |-> chunk[i][1]]]

\* One iteration of the loop of execute over a chunk of batch_size entries; done: the
\* positions of the chunk whose recovery completed, in the order of completion
SendersChunk(t, chunk, done) ==
    LET collected == ParCollect(chunk, done)
    IN  IF ~collected.ok
        THEN [ret |-> TRUE, tx |-> t, result |-> collected.err, calls |-> <<>>]
        ELSE
        LET appended == AppendSenders(t, collected.val, 1)
        IN  IF ~appended.ok
            THEN [ret |-> TRUE, tx |-> appended.tx, result |-> appended.err,
                  calls |-> AppendKeys(collected.val, appended.calls)]
            ELSE [ret |-> FALSE, tx |-> appended.tx, result |-> NoResult,
                  calls |-> AppendKeys(collected.val, appended.calls)]

\* The output of execute after the walk
SendersOutput(max_block, previous) ==
    SendersOk(max_block, max_block >= previous)

\* (a variant that removes nothing)
SendersUnwindKeepAll(t, unwind_to) ==
    [tx |-> t, result |-> [kind |-> "Unwound", stage_progress |-> unwind_to]]

\* SendersStage::unwind
SendersUnwind(t, unwind_to) ==
    LET body == GetBlockBodyByNum(t, unwind_to)
    IN  IF ~body.ok THEN [tx |-> t, result |-> body.err]
        ELSE [tx |-> [t EXCEPT !.TxSenders = UnwindTableByNum(@, LastTxIndex(body.body))],
              result |-> [kind |-> "Unwound", stage_progress |-> unwind_to]]

SendersOff ==
    /\ sdb = EmptySendersDb
    /\ stx = EmptySendersDb
    /\ sprogress = 0
    /\ previous_stage_progress = 0
    /\ commit_threshold = SendersCommitThreshold
    /\ batch_size = BatchSize
    /\ sseed = NoResult
    /\ spc = "off"
    /\ sinput = 0
    /\ max_block_num = 0
    /\ start_tx_index = 0
    /\ end_tx_index = 0
    /\ entries = <<>>
    /\ sresult = NoResult
    /\ bodyReads = 0
    /\ walked = FALSE
    /\ sdbAtEntry = EmptySendersDb
    /\ sundo = NoResult
    /\ finished = <<>>
    /\ sappends = <<>>

\* seed_execution of the stage's test runner: blocks first..MaxBody with the given
\* transaction counts, transaction indices running from 0, the transactions in bad
\* signed so that no signer recovers, senders present up to block filled
RECURSIVE StartTxId(_, _, _)
StartTxId(first, counts, block) ==
    IF block <= first THEN 0
    ELSE StartTxId(first, counts, block - 1) + counts[block - 1]

SeedTransaction(id, bad) ==
    [nonce |-> id, v |-> IF id \in bad THEN 0 ELSE 27 + (id % 2)]

SeedExecution(first, counts, filled, bad) ==
    LET total == StartTxId(first, counts, MaxBody + 1)
        txs == [id \in 0..(total - 1) |-> SeedTransaction(id, bad)]
        done == StartTxId(first, counts, filled + 1)
    IN  [BlockBodies |-> [b \in first..MaxBody |->
                            [start_tx_id |-> StartTxId(first, counts, b),
                             tx_count |-> counts[b]]],
         Transactions |-> txs,
         TxSenders |-> [id \in 0..(done - 1) |-> RecoverSigner(txs[id]).val]]

\* The transaction counts of the seeded blocks: none, one, or the most
TxCounts == {0, 1, MaxTxCount}

\* One or two neighbouring transaction indices of lo..hi, or none
BadSets(lo, hi) ==
    {{}} \cup {{b} : b \in lo..hi} \cup {{b, b + 1} : b \in lo..(hi - 1)}

----------------------------------------------------------------------------
(* ParkedPool (crates/transaction-pool/src/pool/parked.rs): transactions    *)
(* by identifier and in an ordered set, over a ParkedOrd wrapper            *)

\* Identifiers are 1..MaxId, fees are absent or 1..MaxFee; add_transaction is
\* called while the submission counter is below MaxSubmissions
MaxId == 2
MaxFee == 2
MaxSubmissions == 3

Orderings == {"BasefeeOrd", "QueuedOrd"}

PoolTransactions ==
    [id : 1..MaxId, max_fee_per_gas : {None} \cup {Some(f) : f \in 1..MaxFee}]

\* Ord::cmp of two integers
Cmp(a, b) == IF a < b THEN "Less" ELSE IF a = b THEN "Equal" ELSE "Greater"

\* Ordering::then_with
ThenWith(first, second) == IF first = "Equal" THEN second ELSE first

\* From<Arc<ValidPoolTransaction>> for the wrapper, and the way back
Wrap(ord, value) == [ord |-> ord, inner |-> value]

Unwrap(wrapped) == wrapped.inner

\* Ord for BasefeeOrd
BasefeeOrdCmp(a, b) ==
    LET fee == a.inner.max_fee_per_gas
        other == b.inner.max_fee_per_gas
    IN  IF fee.some /\ other.some THEN Cmp(fee.val, other.val)
        ELSE IF ~fee.some /\ other.some THEN "Less"
        ELSE IF fee.some /\ ~other.some THEN "Greater"
        ELSE "Equal"

\* Ord for QueuedOrd
QueuedOrdCmp(a, b) == "Equal"

\* T::cmp of the wrapper the pool is built over
TransactionCmp(a, b) ==
    IF a.ord = "BasefeeOrd" THEN BasefeeOrdCmp(a, b) ELSE QueuedOrdCmp(a, b)

\* (a variant that compares the wrapped transactions only)
ParkedCmpTransactionOnly(a, b) ==
    TransactionCmp(a.transaction, b.transaction)

\* Ord for ParkedPoolTransaction
ParkedCmp(a, b) ==
    ThenWith(TransactionCmp(a.transaction, b.transaction),
             Cmp(Unwrap(a.transaction).id, Unwrap(b.transaction).id))

\* BTreeSet::insert: a value equal to one of the set is not inserted
BTreeInsert(set, value) ==
    IF \E i \in 1..Len(set) : ParkedCmp(set[i], value) = "Equal" THEN set
    ELSE
    LET n == Cardinality({i \in 1..Len(set) : ParkedCmp(set[i], value) = "Less"})
    IN  SubSeq(set, 1, n) \o <<value>> \o SubSeq(set, n + 1, Len(set))

\* BTreeSet::remove: the value of the set equal to the given one is removed
BTreeRemove(set, value) ==
    SelectSeq(set, LAMBDA e : ParkedCmp(e, value) # "Equal")

\* ParkedPool::next_id; the counter stays below MaxSubmissions, far from where
\* wrapping_add wraps
NextId(counter) == [id |-> counter, counter |-> counter + 1]

\* ParkedPool::default
DefaultPool == [submission_id |-> 0, by_id |-> EmptyTable, best |-> <<>>]

\* (a variant that takes the submission id before the assertion)
AddTransactionCountFirst(pool, ord, ptx) ==
    LET id == ptx.id
        next == NextId(pool.submission_id)
        transaction == [submission_id |-> next.id, transaction |-> Wrap(ord, ptx)]
    IN  IF id \in DOMAIN pool.by_id
        THEN [panic |-> TRUE, pool |-> [pool EXCEPT !.submission_id = next.counter]]
        ELSE [panic |-> FALSE,
              pool |-> [submission_id |-> next.counter,
                        by_id |-> Put(pool.by_id, id, transaction),
                        best |-> BTreeInsert(pool.best, transaction)]]

\* ParkedPool::add_transaction
AddTransaction(pool, ord, ptx) ==
    LET id == ptx.id
    IN  IF id \in DOMAIN pool.by_id THEN [panic |-> TRUE, pool |-> pool]
        ELSE
        LET next == NextId(pool.submission_id)
            transaction == [submission_id |-> next.id, transaction |-> Wrap(ord, ptx)]
        IN  [panic |-> FALSE,
             pool |-> [submission_id |-> next.counter,
                       by_id |-> Put(pool.by_id, id, transaction),
                       best |-> BTreeInsert(pool.best, transaction)]]

\* (a variant that leaves the ordered set alone)
RemoveTransactionByIdOnly(pool, id) ==
    IF id \notin DOMAIN pool.by_id THEN [returned |-> None, pool |-> pool]
    ELSE [returned |-> Some(Unwrap(pool.by_id[id].transaction)),
          pool |-> [pool EXCEPT !.by_id = Restrict(@, DOMAIN @ \ {id})]]

\* ParkedPool::remove_transaction
RemoveTransaction(pool, id) ==
    IF id \notin DOMAIN pool.by_id THEN [returned |-> None, pool |-> pool]
    ELSE
    LET ptx == pool.by_id[id]
    IN  [returned |-> Some(Unwrap(ptx.transaction)),
         pool |-> [pool EXCEPT !.by_id = Restrict(@, DOMAIN @ \ {id}),
                               !.best = BTreeRemove(@, ptx)]]

\* No call of the pool yet
NoCall == [op |-> "none"]

\* The pool as one record
Pool == [submission_id |-> submission_id, by_id |-> by_id, best |-> best]

PoolOff ==
    /\ submission_id = 0
    /\ by_id = EmptyTable
    /\ best = <<>>
    /\ ordering = "QueuedOrd"
    /\ pool_pc = "off"
    /\ last_call = NoCall
    /\ inserted = EmptyTable

----------------------------------------------------------------------------
(* RequestError (crates/interfaces/src/p2p/error.rs)                        *)

\* Requests whose outcome the log keeps
MaxRequests == 3

RequestErrors ==
    {"ChannelClosed", "NotConnected", "ConnectionDropped", "UnsupportedCapability",
     "Timeout", "BadResponse"}

\* (a variant that retries on a timeout only)
IsRetryableOnlyTimeout(error) == error = "Timeout"

\* RequestError::is_retryable
IsRetryable(error) == error \in {"Timeout", "ConnectionDropped"}

\* From<mpsc::error::SendError<T>> and From<oneshot::error::RecvError>
FromSendError == "ChannelClosed"

FromRecvError == "ChannelClosed"

RequestsOff == outcomes = <<>>

----------------------------------------------------------------------------
(* Initial states: an empty database, or chain A inserted from genesis with   *)
(* the stage progress at or below its last block                             *)

RECURSIVE TdOfA(_)
TdOfA(n) ==
    IF n = 0 THEN DifficultyOf(HashA(0)) ELSE TdOfA(n - 1) + DifficultyOf(HashA(n))

SeedDb(p) ==
    [CanonicalHeaders |-> [n \in 0..p |-> HashA(n)],
     HeaderNumbers |-> [h \in {HashA(n) : n \in 0..p} |-> NumberOf(h)],
     Headers |-> [k \in {<<n, HashA(n)>> : n \in 0..p} |-> HeaderOf(k[2])],
     HeaderTD |-> [k \in {<<n, HashA(n)>> : n \in 0..p} |-> TdOfA(k[1])]]

\* The Headers stage before its first call, at position at
HeadersAt(at) ==
    /\ tx = db
    /\ dbAtEntry = db
    /\ pc = at
    /\ caller = "execute"
    /\ input = 0
    /\ head = SealedNew(HeaderOf(HashA(0)), HashA(0))
    /\ tip = ZeroHash
    /\ stream = <<>>
    /\ current_progress = 0
    /\ result = NoResult
    /\ lookup = NoResult
    /\ status = [height |-> 0, hash |-> ZeroHash, td |-> 0]
    /\ forkchoice = ZeroHash
    /\ fcPublished = FALSE
    /\ fcUnseen = FALSE
    /\ fcClosed = FALSE
    /\ lastChunk = <<>>
    /\ commits = 0
    /\ chunks = 0
    /\ requested = FALSE
    /\ fcConsulted = FALSE
    /\ undo = NoResult
    /\ resume = NoResult
    /\ cursors = {}
    /\ writes = <<>>
    /\ txAtChunk = db

Init ==
    /\ \/ /\ db = EmptyDb
          /\ progress = 0
       \/ \E len \in 0..MaxSeed : \E p \in 0..len :
            /\ db = SeedDb(len)
            /\ progress = p
    /\ HeadersAt("idle")
    /\ SendersOff
    /\ PoolOff
    /\ RequestsOff

\* The Senders stage over a seeded body range, the Headers stage not running
SendersSeeded ==
    /\ db = EmptyDb
    /\ progress = 0
    /\ HeadersAt("off")
    /\ \E first \in 0..MaxBody : \E filled \in first..MaxBody :
       \E counts \in [0..MaxBody -> TxCounts] :
         /\ \A b \in 0..MaxBody : b < first => counts[b] = 0
         /\ \E bad \in BadSets(StartTxId(first, counts, filled + 1),
                                StartTxId(first, counts, MaxBody + 1) - 1) :
              sdb = SeedExecution(first, counts, filled, bad)
         /\ sprogress = filled
    /\ previous_stage_progress \in 0..MaxBody
    /\ stx = sdb
    /\ sdbAtEntry = sdb
    /\ spc = "idle"
    /\ sinput = 0
    /\ max_block_num = 0
    /\ start_tx_index = 0
    /\ end_tx_index = 0
    /\ entries = <<>>
    /\ sresult = NoResult
    /\ bodyReads = 0
    /\ walked = FALSE
    /\ sundo = NoResult
    /\ finished = <<>>
    /\ sappends = <<>>
    /\ sseed = [db |-> sdb, progress |-> sprogress]
    /\ PoolOff
    /\ RequestsOff

\* The stage as its tests configure it
SendersInit ==
    /\ SendersSeeded
    /\ commit_threshold = SendersCommitThreshold
    /\ batch_size = BatchSize

\* The stage under any commit_threshold and batch_size (both >= 1), behind the
\* stage before it
SendersRunsInit ==
    /\ SendersSeeded
    /\ commit_threshold \in 1..MaxSendersCommitThreshold
    /\ batch_size \in 1..BatchSize
    /\ sprogress <= previous_stage_progress

----------------------------------------------------------------------------
(* Actions *)

\* HeaderStage::execute from its entry to its first suspension or return
ExecuteStart ==
    /\ pc = "idle"
    /\ input' = progress
    /\ tx' = db
    /\ dbAtEntry' = db
    /\ caller' = "execute"
    /\ current_progress' = progress
    /\ lastChunk' = <<>>
    /\ commits' = 0
    /\ chunks' = 0
    /\ LET updated == UpdateHead(db, progress)
           range == GetHeadAndTip(db, progress)
       IN  IF ~updated.ok
           THEN /\ result' = updated.err
                /\ pc' = "returned"
                /\ requested' = FALSE
                /\ fcConsulted' = FALSE
                /\ UNCHANGED <<status, head, tip, stream, fcUnseen>>
           ELSE /\ status' = updated.status
                /\ IF range.kind = "Err"
                   THEN /\ result' = range.err
                        /\ pc' = "returned"
                        /\ requested' = FALSE
                        /\ fcConsulted' = FALSE
                        /\ UNCHANGED <<head, tip, stream, fcUnseen>>
                   ELSE IF range.kind = "Forkchoice"
                   THEN /\ head' = range.head
                        /\ pc' = "await_fc"
                        /\ fcUnseen' = fcPublished
                        /\ requested' = FALSE
                        /\ fcConsulted' = TRUE
                        /\ UNCHANGED <<result, tip, stream>>
                   ELSE /\ head' = range.head
                        /\ tip' = range.tip
                        /\ \E s \in DownloaderStreams(range.head, range.tip) : stream' = s
                        /\ pc' = "stream"
                        /\ requested' = TRUE
                        /\ fcConsulted' = FALSE
                        /\ UNCHANGED <<result, fcUnseen>>
    /\ cursors' = IF pc' = "await_fc" THEN HeadAndTipCursors ELSE {}
    /\ writes' = <<>>
    /\ txAtChunk' = db
    /\ lookup' = NoResult
    /\ undo' = NoResult
    /\ UNCHANGED <<db, progress, forkchoice, fcPublished, resume, fcClosed,
                   svars, pvars, rvars>>

\* A direct call of HeaderStage::get_head_and_tip
HeadAndTipLookup ==
    /\ pc = "idle"
    /\ caller' = "lookup"
    /\ LET range == GetHeadAndTip(db, progress)
       IN  IF range.kind = "Err"
           THEN /\ lookup' = range
                /\ fcConsulted' = FALSE
                /\ UNCHANGED <<pc, head, fcUnseen>>
           ELSE IF range.kind = "Forkchoice"
           THEN /\ head' = range.head
                /\ pc' = "await_fc"
                /\ fcUnseen' = fcPublished
                /\ fcConsulted' = TRUE
                /\ UNCHANGED lookup
           ELSE /\ lookup' = [kind |-> "Ok", head |-> range.head, tip |-> range.tip]
                /\ fcConsulted' = FALSE
                /\ UNCHANGED <<pc, head, fcUnseen>>
    /\ cursors' = IF pc' = "await_fc" THEN HeadAndTipCursors ELSE {}
    /\ UNCHANGED <<db, tx, progress, input, tip, stream, current_progress, result, status,
                   forkchoice, fcPublished, dbAtEntry, lastChunk, commits, chunks, requested,
                   undo, resume, writes, txAtChunk,
                   fcClosed,
                   svars, pvars, rvars>>

\* The consensus layer publishes a forkchoice state
ConsensusUpdate ==
    /\ pc \in {"idle", "await_fc"}
    /\ ~fcClosed
    /\ \E h \in Hashes \cup {ZeroHash} : forkchoice' = h
    /\ fcPublished' = TRUE
    /\ fcUnseen' = (pc = "await_fc")
    /\ UNCHANGED <<db, tx, progress, pc, caller, input, head, tip, stream, current_progress,
                   result, lookup, status, dbAtEntry, lastChunk, commits, chunks, requested,
                   fcConsulted, undo, resume, cursors, writes, txAtChunk,
                   fcClosed,
                   svars, pvars, rvars>>

\* The consensus side drops the sender of the forkchoice channel: changed() returns
\* an error from then on, once the last value has been seen
ConsensusClosed ==
    /\ pc \in {"idle", "await_fc"}
    /\ ~fcClosed
    /\ fcClosed' = TRUE
    /\ UNCHANGED <<db, tx, progress, pc, caller, input, head, tip, stream, current_progress,
                   result, lookup, status, forkchoice, fcPublished, fcUnseen,
                   dbAtEntry, lastChunk, commits, chunks, requested, fcConsulted, undo,
                   resume, cursors, writes, txAtChunk, svars, pvars, rvars>>

\* One turn of the loop of HeaderStage::next_fork_choice_state, and what its caller
\* does with the state it returns
ForkchoiceChanged ==
    /\ pc = "await_fc"
    /\ fcUnseen \/ fcClosed
    /\ fcUnseen' = FALSE
    /\ IF ~ForkchoiceAccepted(forkchoice, head.hash)
       THEN UNCHANGED <<pc, tip, stream, lookup, requested>>
       ELSE IF caller = "lookup"
       THEN /\ lookup' = [kind |-> "Ok", head |-> head, tip |-> forkchoice]
            /\ pc' = "idle"
            /\ UNCHANGED <<tip, stream, requested>>
       ELSE /\ tip' = forkchoice
            /\ \E s \in DownloaderStreams(head, forkchoice) : stream' = s
            /\ pc' = "stream"
            /\ requested' = TRUE
            /\ UNCHANGED lookup
    /\ cursors' = IF pc' = "await_fc" THEN cursors ELSE {}
    /\ UNCHANGED <<db, tx, progress, caller, input, head, current_progress, result, status,
                   forkchoice, fcPublished, dbAtEntry, lastChunk, commits, chunks,
                   fcConsulted, undo, resume, writes, txAtChunk,
                   fcClosed,
                   svars, pvars, rvars>>

\* The downloader breaks its contract before the stage takes the first chunk
DownloaderDeviates ==
    /\ pc = "stream"
    /\ chunks = 0
    /\ stream \in DownloaderStreams(head, tip)
    /\ \E s \in DeviatingStreams(stream) : stream' = s
    /\ UNCHANGED <<db, tx, progress, pc, caller, input, head, tip, current_progress, result,
                   lookup, status, forkchoice, fcPublished, fcUnseen, dbAtEntry, lastChunk,
                   commits, chunks, requested, fcConsulted, undo, resume, cursors, writes,
                   txAtChunk, fcClosed,
                   svars, pvars, rvars>>

\* The stream yields a chunk of commit_threshold items (fewer at its end)
ChunkReceived ==
    /\ pc = "stream"
    /\ stream # <<>>
    /\ LET n == Min2(CommitThreshold, Len(stream))
           chunk == SubSeq(stream, 1, n)
       IN  \E overwrite \in BOOLEAN :
           LET out == ProcessChunk(tx, chunk, input, current_progress, overwrite)
           IN  /\ lastChunk' = chunk
               /\ chunks' = chunks + 1
               /\ tx' = out.tx
               /\ current_progress' = out.current
               /\ db' = IF out.commit THEN out.tx ELSE db
               /\ commits' = IF out.commit THEN commits + 1 ELSE commits
               /\ txAtChunk' = tx
               /\ writes' = IF out.commit /\ CollectChunk(chunk).ok
                            THEN Append(writes, WriteOrder(CollectChunk(chunk).res))
                            ELSE writes
               /\ IF out.ret
                  THEN /\ result' = out.result
                       /\ pc' = "returned"
                       /\ stream' = <<>>
                  ELSE /\ stream' = SubSeq(stream, n + 1, Len(stream))
                       /\ UNCHANGED <<result, pc>>
    /\ UNCHANGED <<progress, caller, input, head, tip, lookup, status, forkchoice,
                   fcPublished, fcUnseen, dbAtEntry, requested, fcConsulted, undo, resume,
                   cursors, fcClosed,
                   svars, pvars, rvars>>

\* The stream is exhausted: total difficulty pass and output
StreamExhausted ==
    /\ pc = "stream"
    /\ stream = <<>>
    /\ LET out == FinishExecute(tx, head, current_progress)
       IN  /\ tx' = out.tx
           /\ result' = out.result
    /\ pc' = "returned"
    /\ UNCHANGED <<db, progress, caller, input, head, tip, stream, current_progress, lookup,
                   status, forkchoice, fcPublished, fcUnseen, dbAtEntry, lastChunk, commits,
                   chunks, requested, fcConsulted, undo, resume, cursors, writes, txAtChunk,
                   fcClosed,
                   svars, pvars, rvars>>

\* The caller of execute: on Ok it saves the progress and commits, on an error the
\* transaction is dropped; either way the stage can be entered again
PipelineStep ==
    /\ pc = "returned"
    /\ pc' = "idle"
    /\ IF result.kind = "Ok"
       THEN /\ db' = tx
            /\ progress' = result.stage_progress
            /\ undo' = [db |-> dbAtEntry, progress |-> input]
            /\ UNCHANGED tx
       ELSE /\ tx' = db
            /\ undo' = NoResult
            /\ UNCHANGED <<db, progress>>
    /\ result' = NoResult
    /\ input' = 0
    /\ head' = SealedNew(HeaderOf(HashA(0)), HashA(0))
    /\ tip' = ZeroHash
    /\ current_progress' = 0
    /\ dbAtEntry' = db'
    /\ lastChunk' = <<>>
    /\ commits' = 0
    /\ chunks' = 0
    /\ requested' = FALSE
    /\ fcConsulted' = FALSE
    /\ resume' = NoResult
    /\ writes' = <<>>
    /\ txAtChunk' = db'
    /\ UNCHANGED <<caller, stream, lookup, status, forkchoice, fcPublished, fcUnseen, cursors,
                   fcClosed,
                   svars, pvars, rvars>>

\* unwind_to = block - 1 of the pipeline over unsigned block numbers: for block 0 a
\* build with overflow checks panics and one without them wraps
PipelineUnwindTarget(block) ==
    IF block >= 1
    THEN {[panic |-> FALSE, unwind_to |-> block - 1]}
    ELSE {[panic |-> TRUE, unwind_to |-> 0],
          [panic |-> FALSE, unwind_to |-> (block - 1) % U64Modulus]}

\* The pipeline on Validation { block, .. }: the transaction of the failed execute is
\* dropped and the stage is unwound to block - 1
ValidationUnwind ==
    /\ pc = "returned"
    /\ result.kind = "Validation"
    /\ \E target \in PipelineUnwindTarget(result.block) :
         IF target.panic
         THEN /\ pc' = "panicked"
              /\ tx' = db
              /\ UNCHANGED <<input, result, caller>>
         ELSE LET out == HeaderUnwind(db, target.unwind_to)
              IN  /\ input' = target.unwind_to
                  /\ tx' = out.tx
                  /\ result' = out.result
                  /\ pc' = "unwound"
                  /\ caller' = "validation"
    /\ dbAtEntry' = db
    /\ undo' = NoResult
    /\ head' = SealedNew(HeaderOf(HashA(0)), HashA(0))
    /\ tip' = ZeroHash
    /\ current_progress' = 0
    /\ lastChunk' = <<>>
    /\ commits' = 0
    /\ chunks' = 0
    /\ requested' = FALSE
    /\ fcConsulted' = FALSE
    /\ resume' = NoResult
    /\ writes' = <<>>
    /\ txAtChunk' = db
    /\ lookup' = NoResult
    /\ UNCHANGED <<db, progress, stream, status, forkchoice, fcPublished, fcUnseen,
                   cursors, fcClosed, svars, pvars, rvars>>

\* The pipeline on every other result of execute
PipelineStepOther ==
    /\ result.kind # "Validation"
    /\ PipelineStep

\* The caller unwinds the stage to a block at or below its progress
Unwind ==
    /\ pc = "idle"
    /\ \E unwind_to \in 0..progress :
         LET out == HeaderUnwind(db, unwind_to)
         IN  /\ input' = unwind_to
             /\ tx' = out.tx
             /\ result' = out.result
    /\ dbAtEntry' = db
    /\ caller' = "unwind"
    /\ pc' = "unwound"
    /\ lookup' = NoResult
    /\ UNCHANGED <<db, progress, head, tip, stream, current_progress, status, forkchoice,
                   fcPublished, fcUnseen, lastChunk, commits, chunks, requested, fcConsulted,
                   undo, resume, cursors, writes, txAtChunk,
                   fcClosed,
                   svars, pvars, rvars>>

\* The caller of unwind saves the returned progress and commits
UnwindStep ==
    /\ pc = "unwound"
    /\ pc' = "idle"
    /\ db' = tx
    /\ progress' = result.stage_progress
    /\ result' = NoResult
    /\ input' = 0
    /\ dbAtEntry' = db'
    /\ undo' = NoResult
    /\ txAtChunk' = db'
    /\ UNCHANGED <<tx, caller, head, tip, stream, current_progress, lookup, status,
                   forkchoice, fcPublished, fcUnseen, lastChunk, commits, chunks, requested,
                   fcConsulted, resume, cursors, writes, fcClosed,
                   svars, pvars, rvars>>

\* The process stops right after a chunk commit of execute and is started again: the
\* open transaction is dropped, the persisted progress is the one execute was entered with
Interrupt ==
    /\ pc = "stream"
    /\ commits >= 1
    /\ pc' = "idle"
    /\ tx' = db
    /\ resume' = IF resume # NoResult THEN [resume EXCEPT !.last = @ \/ stream = <<>>]
                 ELSE IF \A i \in 1..Len(stream) : stream[i].ok
                 THEN RunOn(tx, stream, head, current_progress)
                 ELSE NoResult
    /\ stream' = <<>>
    /\ result' = NoResult
    /\ input' = 0
    /\ head' = SealedNew(HeaderOf(HashA(0)), HashA(0))
    /\ tip' = ZeroHash
    /\ current_progress' = 0
    /\ dbAtEntry' = db
    /\ lastChunk' = <<>>
    /\ commits' = 0
    /\ chunks' = 0
    /\ requested' = FALSE
    /\ fcConsulted' = FALSE
    /\ writes' = <<>>
    /\ txAtChunk' = db
    /\ UNCHANGED <<db, progress, caller, lookup, status, forkchoice, fcPublished, fcUnseen,
                   undo, cursors, fcClosed,
                   svars, pvars, rvars>>

\* SendersStage::execute from its entry to the walk over Transactions or its return
SendersExecuteStart ==
    /\ spc = "idle"
    /\ LET out == SendersBegin(sdb, sprogress, previous_stage_progress)
       IN  /\ sresult' = out.result
           /\ spc' = IF out.ret THEN "returned" ELSE "walk"
           /\ walked' = ~out.ret
           /\ bodyReads' = out.reads
           /\ max_block_num' = out.max
           /\ start_tx_index' = out.start
           /\ end_tx_index' = out.end
           /\ entries' = out.entries
    /\ sinput' = sprogress
    /\ stx' = sdb
    /\ sdbAtEntry' = sdb
    /\ sundo' = NoResult
    /\ finished' = <<>>
    /\ sappends' = <<>>
    /\ UNCHANGED <<sdb, sprogress, previous_stage_progress, commit_threshold,
                   batch_size, sseed, hvars, pvars, rvars>>

\* A worker completes the recovery of one entry of the chunk the walk yields next
SendersRecovered ==
    /\ spc = "walk"
    /\ entries # <<>>
    /\ \E i \in 1..Min2(batch_size, Len(entries)) :
         /\ \A k \in 1..Len(finished) : finished[k] # i
         /\ finished' = Append(finished, i)
    /\ UNCHANGED <<sdb, stx, sprogress, previous_stage_progress, commit_threshold,
                   batch_size, sseed, spc, sinput,
                   max_block_num, start_tx_index, end_tx_index, entries, sresult,
                   bodyReads, walked, sdbAtEntry, sundo, sappends, hvars, pvars, rvars>>

\* The collect over a chunk of batch_size entries (fewer at the end of the walk)
\* returns, once every recovery has completed or one has failed, and the recovered
\* pairs are appended
SendersBatch ==
    /\ spc = "walk"
    /\ entries # <<>>
    /\ LET n == Min2(batch_size, Len(entries))
           chunk == SubSeq(entries, 1, n)
       IN  /\ Len(finished) = n \/ FailedAt(chunk, finished) # {}
           /\ LET out == SendersChunk(stx, chunk, finished)
              IN  /\ stx' = out.tx
                  /\ sappends' = sappends \o
                        [i \in 1..Len(out.calls) |->
                            [key |-> out.calls[i], done |-> finished, batch |-> n]]
                  /\ IF out.ret
                     THEN /\ sresult' = out.result
                          /\ spc' = "returned"
                          /\ entries' = <<>>
                     ELSE /\ entries' = SubSeq(entries, n + 1, Len(entries))
                          /\ UNCHANGED <<sresult, spc>>
    /\ finished' = <<>>
    /\ UNCHANGED <<sdb, sprogress, previous_stage_progress, commit_threshold,
                   batch_size, sseed, sinput, max_block_num,
                   start_tx_index, end_tx_index, bodyReads, walked, sdbAtEntry, sundo,
                   hvars, pvars, rvars>>

\* The walk is exhausted: the output of execute
SendersWalkDone ==
    /\ spc = "walk"
    /\ entries = <<>>
    /\ sresult' = SendersOutput(max_block_num, previous_stage_progress)
    /\ spc' = "returned"
    /\ UNCHANGED <<sdb, stx, sprogress, previous_stage_progress, commit_threshold,
                   batch_size, sseed, sinput, max_block_num,
                   start_tx_index, end_tx_index, entries, bodyReads, walked, sdbAtEntry,
                   sundo, finished, sappends, hvars, pvars, rvars>>

\* The caller of the Senders stage: on Ok it saves the progress and commits, on an
\* error the transaction is dropped
SendersPipelineStep ==
    /\ spc = "returned"
    /\ spc' = "idle"
    /\ IF sresult.kind = "Ok"
       THEN /\ sdb' = stx
            /\ sprogress' = sresult.stage_progress
            /\ sundo' = [db |-> sdbAtEntry, progress |-> sinput]
            /\ UNCHANGED stx
       ELSE /\ stx' = sdb
            /\ sundo' = NoResult
            /\ UNCHANGED <<sdb, sprogress>>
    /\ sresult' = NoResult
    /\ sinput' = 0
    /\ max_block_num' = 0
    /\ start_tx_index' = 0
    /\ end_tx_index' = 0
    /\ bodyReads' = 0
    /\ walked' = FALSE
    /\ sdbAtEntry' = sdb'
    /\ finished' = <<>>
    /\ sappends' = <<>>
    /\ UNCHANGED <<previous_stage_progress, commit_threshold,
                   batch_size, sseed, entries, hvars, pvars, rvars>>

\* The caller unwinds the Senders stage to a block at or below its progress
SendersUnwindCall ==
    /\ spc = "idle"
    /\ \E unwind_to \in 0..sprogress :
         LET out == SendersUnwind(sdb, unwind_to)
         IN  /\ sinput' = unwind_to
             /\ stx' = out.tx
             /\ sresult' = out.result
    /\ sdbAtEntry' = sdb
    /\ spc' = "unwound"
    /\ UNCHANGED <<sdb, sprogress, previous_stage_progress, commit_threshold,
                   batch_size, sseed, max_block_num, start_tx_index,
                   end_tx_index, entries, bodyReads, walked, sundo, finished, sappends,
                   hvars, pvars, rvars>>

\* The caller of unwind saves the returned progress and commits, or drops the
\* transaction on an error
SendersUnwindStep ==
    /\ spc = "unwound"
    /\ spc' = "idle"
    /\ IF sresult.kind = "Unwound"
       THEN /\ sdb' = stx
            /\ sprogress' = sresult.stage_progress
            /\ UNCHANGED stx
       ELSE /\ stx' = sdb
            /\ UNCHANGED <<sdb, sprogress>>
    /\ sresult' = NoResult
    /\ sinput' = 0
    /\ sdbAtEntry' = sdb'
    /\ sundo' = NoResult
    /\ UNCHANGED <<previous_stage_progress, commit_threshold,
                   batch_size, sseed, max_block_num, start_tx_index, end_tx_index,
                   entries, bodyReads, walked, finished, sappends, hvars, pvars, rvars>>

\* A call of ParkedPool::add_transaction
PoolAdd ==
    /\ pool_pc = "ready"
    /\ submission_id < MaxSubmissions
    /\ \E ptx \in PoolTransactions :
         LET out == AddTransaction(Pool, ordering, ptx)
         IN  /\ submission_id' = out.pool.submission_id
             /\ by_id' = out.pool.by_id
             /\ best' = out.pool.best
             /\ pool_pc' = IF out.panic THEN "panicked" ELSE "ready"
             /\ last_call' = [op |-> "add_transaction", id |-> ptx.id, tx |-> ptx,
                              returned |-> None, before |-> Pool, known |-> inserted]
             /\ inserted' = IF out.panic THEN inserted ELSE Put(inserted, ptx.id, ptx)
    /\ UNCHANGED <<ordering, hvars, svars, rvars>>

\* A call of ParkedPool::remove_transaction
PoolRemove ==
    /\ pool_pc = "ready"
    /\ \E id \in 1..MaxId :
         LET out == RemoveTransaction(Pool, id)
         IN  /\ by_id' = out.pool.by_id
             /\ best' = out.pool.best
             /\ submission_id' = out.pool.submission_id
             /\ last_call' = [op |-> "remove_transaction", id |-> id, tx |-> None,
                              returned |-> out.returned, before |-> Pool,
                              known |-> inserted]
             /\ inserted' = Restrict(inserted, DOMAIN inserted \ {id})
    /\ UNCHANGED <<ordering, pool_pc, hvars, svars, rvars>>

\* A peer request ends with an error, which the requester classifies
RequestFailed ==
    /\ Len(outcomes) < MaxRequests
    /\ \E error \in RequestErrors :
         outcomes' = Append(outcomes, [error |-> error, from |-> "peer",
                                       retryable |-> IsRetryable(error)])
    /\ UNCHANGED <<hvars, svars, pvars>>

\* The channel to the network task is closed when the request is sent
RequestSendFailed ==
    /\ Len(outcomes) < MaxRequests
    /\ outcomes' = Append(outcomes, [error |-> FromSendError, from |-> "send",
                                     retryable |-> IsRetryable(FromSendError)])
    /\ UNCHANGED <<hvars, svars, pvars>>

\* The response channel is dropped before the response arrives
RequestRecvFailed ==
    /\ Len(outcomes) < MaxRequests
    /\ outcomes' = Append(outcomes, [error |-> FromRecvError, from |-> "recv",
                                     retryable |-> IsRetryable(FromRecvError)])
    /\ UNCHANGED <<hvars, svars, pvars>>

Next ==
    \/ ExecuteStart
    \/ HeadAndTipLookup
    \/ ConsensusUpdate
    \/ ForkchoiceChanged
    \/ ChunkReceived
    \/ StreamExhausted
    \/ PipelineStep

Spec == Init /\ [][Next]_vars

\* The Headers stage with its unwind
NextUnwind ==
    \/ ExecuteStart
    \/ HeadAndTipLookup
    \/ ConsensusUpdate
    \/ ForkchoiceChanged
    \/ ChunkReceived
    \/ StreamExhausted
    \/ PipelineStep
    \/ Unwind
    \/ UnwindStep

SpecUnwind == Init /\ [][NextUnwind]_vars

\* The Headers stage with interruptions at its commit boundaries
NextInterrupt ==
    \/ ExecuteStart
    \/ HeadAndTipLookup
    \/ ConsensusUpdate
    \/ ForkchoiceChanged
    \/ ChunkReceived
    \/ StreamExhausted
    \/ PipelineStep
    \/ Interrupt

SpecInterrupt == Init /\ [][NextInterrupt]_vars

\* One execute of the Headers stage over a downloader that may break its contract
NextDeviating ==
    \/ ExecuteStart
    \/ ConsensusUpdate
    \/ ForkchoiceChanged
    \/ DownloaderDeviates
    \/ ChunkReceived
    \/ StreamExhausted

SpecDeviating == Init /\ [][NextDeviating]_vars

\* The Headers stage under a pipeline that unwinds on a Validation error
NextValidation ==
    \/ ExecuteStart
    \/ ConsensusUpdate
    \/ ForkchoiceChanged
    \/ ChunkReceived
    \/ StreamExhausted
    \/ PipelineStepOther
    \/ ValidationUnwind
    \/ UnwindStep

SpecValidation == Init /\ [][NextValidation]_vars

\* One execute of the Headers stage over a forkchoice channel that may be closed; the
\* loop of next_fork_choice_state takes its turn whenever changed() has resolved
NextForkchoice ==
    \/ ExecuteStart
    \/ ConsensusUpdate
    \/ ConsensusClosed
    \/ ForkchoiceChanged
    \/ ChunkReceived
    \/ StreamExhausted

\* A turn of the loop of next_fork_choice_state as it shows in pc and fcUnseen: every
\* step of ForkchoiceChanged that is not a stuttering step is one, and no other step is
ForkchoiceTurn ==
    /\ pc = "await_fc"
    /\ fcUnseen \/ fcClosed
    /\ fcUnseen' = FALSE
    /\ pc' = IF ~ForkchoiceAccepted(forkchoice, head.hash) THEN pc
             ELSE IF caller = "lookup" THEN "idle" ELSE "stream"

\* The executor polls the suspended stage once changed() has resolved
SpecForkchoice ==
    Init /\ [][NextForkchoice]_vars /\ WF_<<pc, fcUnseen>>(ForkchoiceTurn)

\* The Senders stage with its unwind
NextSenders ==
    \/ SendersExecuteStart
    \/ SendersRecovered
    \/ SendersBatch
    \/ SendersWalkDone
    \/ SendersPipelineStep
    \/ SendersUnwindCall
    \/ SendersUnwindStep

SpecSenders == SendersInit /\ [][NextSenders]_vars

\* The Senders stage entered again and again, under any commit_threshold and batch_size
NextSendersRuns ==
    \/ SendersExecuteStart
    \/ SendersRecovered
    \/ SendersBatch
    \/ SendersWalkDone
    \/ SendersPipelineStep

SpecSendersRuns == SendersRunsInit /\ [][NextSendersRuns]_vars

\* Either stage with its unwind
NextStages ==
    \/ ExecuteStart
    \/ HeadAndTipLookup
    \/ ConsensusUpdate
    \/ ForkchoiceChanged
    \/ ChunkReceived
    \/ StreamExhausted
    \/ PipelineStep
    \/ Unwind
    \/ UnwindStep
    \/ SendersExecuteStart
    \/ SendersRecovered
    \/ SendersBatch
    \/ SendersWalkDone
    \/ SendersPipelineStep
    \/ SendersUnwindCall
    \/ SendersUnwindStep

StagesInit == Init \/ SendersInit

SpecStages == StagesInit /\ [][NextStages]_vars

\* The parked pool, neither stage running
PoolInit ==
    /\ db = EmptyDb
    /\ progress = 0
    /\ HeadersAt("off")
    /\ SendersOff
    /\ RequestsOff
    /\ submission_id = DefaultPool.submission_id
    /\ by_id = DefaultPool.by_id
    /\ best = DefaultPool.best
    /\ ordering \in Orderings
    /\ pool_pc = "ready"
    /\ last_call = NoCall
    /\ inserted = EmptyTable

NextPool ==
    \/ PoolAdd
    \/ PoolRemove

SpecPool == PoolInit /\ [][NextPool]_vars

\* Peer requests ending in errors
RequestsInit ==
    /\ db = EmptyDb
    /\ progress = 0
    /\ HeadersAt("off")
    /\ SendersOff
    /\ PoolOff
    /\ outcomes = <<>>

NextRequests ==
    \/ RequestFailed
    \/ RequestSendFailed
    \/ RequestRecvFailed

SpecRequests == RequestsInit /\ [][NextRequests]_vars

----------------------------------------------------------------------------
(* Properties of the Headers stage *)

ReturnedOk == pc = "returned" /\ result.kind = "Ok"

ReturnedErr == pc = "returned" /\ result.kind # "Ok"

LastCanonical(t) ==
    IF DOMAIN t.CanonicalHeaders = {} THEN 0 ELSE SetMax(DOMAIN t.CanonicalHeaders)

\* C1 as stated: whenever execute returns Ok, done and reached_tip are true, the
\* progress is the maximum of the input progress and the highest canonical key, and
\* (the downloader having delivered the whole range) it is the tip's block number.
C1_AsStated ==
    ReturnedOk =>
        /\ result.done /\ result.reached_tip
        /\ result.stage_progress = MaxNat(input, LastCanonical(tx))
        /\ result.stage_progress = NumberOf(tip)

\* C1 amended: whenever execute returns Ok, done and reached_tip are true and the
\* progress is the maximum of the input progress and the highest canonical key; it is
\* the tip's block number when the tip came from the forkchoice channel (no canonical
\* entry above the input progress on entry), and lies above the tip's block number
\* when the tip closed a gap below an existing canonical entry.
C1_OutputProgress ==
    ReturnedOk =>
        /\ result.done /\ result.reached_tip
        /\ result.stage_progress = MaxNat(input, LastCanonical(tx))
        /\ fcConsulted => result.stage_progress = NumberOf(tip)
        /\ ~fcConsulted => result.stage_progress > NumberOf(tip)

C1_Witness ==
    ReturnedOk /\ fcConsulted /\ commits >= 2 /\ result.stage_progress = NumberOf(tip)
        /\ result.stage_progress > input

\* C2: in every committed database state, each CanonicalHeaders(n) = h has exactly one
\* Headers row keyed by hash h, that row is keyed (n, h) and its header hashes to h,
\* and HeaderNumbers(h) = n.
C2_CanonicalConsistent ==
    \A n \in DOMAIN db.CanonicalHeaders :
        LET h == db.CanonicalHeaders[n]
        IN  /\ {k \in DOMAIN db.Headers : k[2] = h} = {<<n, h>>}
            /\ HashOfHeader(db.Headers[<<n, h>>]) = h
            /\ db.Headers[<<n, h>>].number = n
            /\ h \in DOMAIN db.HeaderNumbers
            /\ db.HeaderNumbers[h] = n

C2_Witness ==
    /\ pc = "stream" /\ commits >= 1
    /\ \E n \in DOMAIN db.CanonicalHeaders : n \notin DOMAIN dbAtEntry.CanonicalHeaders

TdRelationAt(t, n) ==
    /\ n \in DOMAIN t.CanonicalHeaders
    /\ LET h == t.CanonicalHeaders[n]
       IN  /\ <<n, h>> \in DOMAIN t.Headers
           /\ <<n, h>> \in DOMAIN t.HeaderTD
           /\ LET hdr == t.Headers[<<n, h>>]
              IN  /\ <<n - 1, hdr.parent_hash>> \in DOMAIN t.HeaderTD
                  /\ t.HeaderTD[<<n, h>>] =
                        t.HeaderTD[<<n - 1, hdr.parent_hash>>] + hdr.difficulty

\* C3: after execute returns Ok from input progress p with output progress q, every
\* block number n with p < n <= q has a canonical header whose total difficulty is
\* its parent's total difficulty plus its own difficulty.
C3_TdAfterExecute ==
    ReturnedOk => \A n \in (input + 1)..result.stage_progress : TdRelationAt(tx, n)

C3_Witness ==
    ReturnedOk /\ result.stage_progress >= input + 3 /\ commits >= 2

TdInvariant(t) ==
    \A n \in DOMAIN t.CanonicalHeaders : n >= 1 => TdRelationAt(t, n)

\* C4 as stated: in every database state that the stage commits during execute, each
\* canonical header with number n >= 1 has a HeaderTD row equal to its parent's total
\* difficulty plus its own difficulty.
C4_AsStated ==
    (pc = "stream" /\ commits >= 1) => TdInvariant(db)

\* C4 amended: the chunk commits of execute leave HeaderTD as it was on entry, so the
\* canonical headers they add have no HeaderTD row; the total-difficulty relation
\* holds for every canonical header n >= 1 in the transaction state in which execute
\* returns Ok, and in the committed database for every canonical header up to the
\* persisted progress.
C4_TdOnlyAfterExecute ==
    /\ pc = "stream" =>
        /\ db.HeaderTD = dbAtEntry.HeaderTD
        /\ \A n \in (DOMAIN db.CanonicalHeaders) \ (DOMAIN dbAtEntry.CanonicalHeaders) :
                <<n, db.CanonicalHeaders[n]>> \notin DOMAIN db.HeaderTD
    /\ ReturnedOk => TdInvariant(tx)
    /\ \A n \in 1..progress : TdRelationAt(db, n)

C4_Witness ==
    /\ pc = "stream" /\ commits >= 1
    /\ \E n \in DOMAIN db.CanonicalHeaders :
            n > progress /\ <<n, db.CanonicalHeaders[n]>> \notin DOMAIN db.HeaderTD

NoEntryAbove(t, block) ==
    /\ \A h \in DOMAIN t.HeaderNumbers : t.HeaderNumbers[h] <= block
    /\ \A n \in DOMAIN t.CanonicalHeaders : n <= block
    /\ \A k \in DOMAIN t.Headers : k[1] <= block
    /\ \A k \in DOMAIN t.HeaderTD : k[1] <= block

\* C5 as stated: whenever execute returns an error, whichever chunk it occurs in, the
\* database is unchanged and no table holds an entry above the input progress (read
\* for an execute entered with no entry above its input progress).
C5_AsStated ==
    (ReturnedErr /\ NoEntryAbove(dbAtEntry, input)) =>
        (db = dbAtEntry /\ NoEntryAbove(db, input))

\* The rows of a chunk's headers present in a table state
ChunkRowsIn(t, chunk) ==
    {i \in 1..Len(chunk) :
        /\ chunk[i].ok
        /\ \/ <<chunk[i].header.number, chunk[i].header.hash>> \in DOMAIN t.Headers
           \/ chunk[i].header.hash \in DOMAIN t.HeaderNumbers
           \/ /\ chunk[i].header.number \in DOMAIN t.CanonicalHeaders
              /\ t.CanonicalHeaders[chunk[i].header.number] = chunk[i].header.hash}

\* C5 amended: whenever execute returns an error, HeaderTD is unchanged and nothing is
\* left uncommitted; if the error occurs before the first chunk is committed the
\* database is unchanged; if it occurs in a later chunk, the rows of the chunks
\* committed before it stay in HeaderNumbers, CanonicalHeaders and Headers, above the
\* input progress.
C5_ErrorKeepsCommittedChunks ==
    ReturnedErr =>
        /\ db.HeaderTD = dbAtEntry.HeaderTD
        /\ tx = db
        /\ chunks <= 1 => db = dbAtEntry
        /\ chunks >= 2 =>
            /\ db # dbAtEntry
            /\ ~NoEntryAbove(db, input)
            /\ \A n \in DOMAIN dbAtEntry.CanonicalHeaders :
                    /\ n \in DOMAIN db.CanonicalHeaders
                    /\ db.CanonicalHeaders[n] = dbAtEntry.CanonicalHeaders[n]

C5_Witness ==
    ReturnedErr /\ chunks >= 2 /\ db # dbAtEntry /\ NoEntryAbove(dbAtEntry, input)

ChunkFailed == lastChunk # <<>> /\ \E i \in 1..Len(lastChunk) : ~lastChunk[i].ok

FirstChunkError == lastChunk[SetMin({i \in 1..Len(lastChunk) : ~lastChunk[i].ok})].error

\* C6: a download error in a chunk that is a Timeout, or any download error other than
\* HeaderValidation, makes execute return Recoverable with that error, and no header
\* of that chunk is written, the valid ones before the error included.
C6_RecoverableWritesNothing ==
    (pc = "returned" /\ ChunkFailed /\ FirstChunkError.kind # "HeaderValidation") =>
        /\ result.kind = "Recoverable"
        /\ result.error = FirstChunkError
        /\ ChunkRowsIn(db, lastChunk) = {}
        /\ ChunkRowsIn(tx, lastChunk) = {}

C6_Witness ==
    /\ pc = "returned" /\ ChunkFailed /\ chunks >= 2
    /\ Len(lastChunk) = 2 /\ lastChunk[1].ok
    /\ FirstChunkError.kind = "RequestError"
    /\ result.kind = "Recoverable"

\* C7: a HeaderValidation error surfaced by the downloader makes execute return
\* Validation whose block is the input stage_progress and whose error is the
\* downloader's validation error.
C7_ValidationBlock ==
    (pc = "returned" /\ ChunkFailed /\ FirstChunkError.kind = "HeaderValidation") =>
        result = [kind |-> "Validation", block |-> input, error |-> FirstChunkError.error]

C7_Witness ==
    /\ pc = "returned" /\ ChunkFailed /\ FirstChunkError.kind = "HeaderValidation"
    /\ result.kind = "Validation" /\ current_progress > input /\ input > 0

\* C8: with no CanonicalHeaders entry at stage_progress, execute and a direct
\* get_head_and_tip fail with DatabaseIntegrity(CanonicalHeader { number:
\* stage_progress }), no header is requested and nothing is written.
C8_MissingHead ==
    /\ (pc = "returned" /\ input \notin DOMAIN dbAtEntry.CanonicalHeaders) =>
        /\ result = DatabaseIntegrity("CanonicalHeader", input)
        /\ ~requested /\ ~fcConsulted
        /\ db = dbAtEntry /\ tx = db
    /\ (caller = "lookup" /\ progress \notin DOMAIN db.CanonicalHeaders) =>
        /\ pc = "idle"
        /\ lookup = [kind |-> "Err", err |-> DatabaseIntegrity("CanonicalHeader", progress)]
        /\ ~requested /\ ~fcConsulted
        /\ tx = db

C8_Witness ==
    /\ caller = "lookup" /\ progress \notin DOMAIN db.CanonicalHeaders
    /\ lookup.kind = "Err" /\ lookup.err.kind = "DatabaseIntegrity"

\* The canonical entry that follows stage_progress, if any
NextCanonical(t, stage_progress) ==
    SetMin({n \in DOMAIN t.CanonicalHeaders : n > stage_progress})

HasGap(t, stage_progress) ==
    /\ stage_progress \in DOMAIN t.CanonicalHeaders
    /\ \E n \in DOMAIN t.CanonicalHeaders : n > stage_progress
    /\ NextCanonical(t, stage_progress) # stage_progress + 1

HeadIn(t, stage_progress) ==
    LET h == t.CanonicalHeaders[stage_progress]
        hdr == t.Headers[<<stage_progress, h>>]
    IN  [hash |-> h, number |-> hdr.number, parent_hash |-> hdr.parent_hash,
         difficulty |-> hdr.difficulty]

GapTip(t, stage_progress) ==
    LET n == NextCanonical(t, stage_progress)
    IN  t.Headers[<<n, t.CanonicalHeaders[n]>>].parent_hash

\* C9: when the next canonical entry after stage_progress exists and is not at
\* stage_progress + 1, get_head_and_tip returns the canonical header at stage_progress
\* as head and that next header's parent_hash as tip, and the forkchoice channel is
\* not consulted.
C9_GapTip ==
    /\ (caller = "lookup" /\ HasGap(db, progress)) =>
        /\ pc = "idle"
        /\ lookup = [kind |-> "Ok", head |-> HeadIn(db, progress),
                     tip |-> GapTip(db, progress)]
        /\ ~fcConsulted
    /\ (caller = "execute" /\ pc \in {"stream", "returned"}
            /\ HasGap(dbAtEntry, input)) =>
        /\ head = HeadIn(dbAtEntry, input)
        /\ tip = GapTip(dbAtEntry, input)
        /\ requested /\ ~fcConsulted

C9_Witness ==
    /\ caller = "lookup" /\ HasGap(db, progress) /\ lookup.kind = "Ok"
    /\ NumberOf(lookup.tip) = NextCanonical(db, progress) - 1

\* C10: when CanonicalHeaders holds an entry at stage_progress + 1, execute (and a
\* direct get_head_and_tip) returns StageProgress(stage_progress); nothing is
\* downloaded or written and the progress stays as it was.
C10_NoWork ==
    /\ (pc = "returned" /\ (input + 1) \in DOMAIN dbAtEntry.CanonicalHeaders) =>
        /\ result = [kind |-> "StageProgress", block |-> input]
        /\ ~requested /\ ~fcConsulted /\ chunks = 0
        /\ db = dbAtEntry /\ tx = db
        /\ progress = input
    /\ (caller = "lookup" /\ (progress + 1) \in DOMAIN db.CanonicalHeaders) =>
        /\ pc = "idle"
        /\ lookup = [kind |-> "Err", err |-> [kind |-> "StageProgress", block |-> progress]]
        /\ ~fcConsulted

C10_Witness ==
    /\ pc = "returned" /\ (input + 1) \in DOMAIN dbAtEntry.CanonicalHeaders
    /\ result.kind = "StageProgress"

\* C11: when CanonicalHeaders has no entry after stage_progress, the tip the stage
\* syncs to is the head_block_hash held by the forkchoice channel, it is not the
\* zero hash and it is not the hash of the current head; the same for the tip a
\* direct get_head_and_tip call returns
C11_ForkchoiceTip ==
    /\ (caller = "execute" /\ fcConsulted /\ requested) =>
            /\ tip = forkchoice
            /\ tip # ZeroHash
            /\ tip # head.hash
    /\ (caller = "lookup" /\ fcConsulted /\ pc = "idle" /\ lookup.kind = "Ok") =>
            /\ lookup.tip \in Hashes
            /\ lookup.tip # ZeroHash
            /\ lookup.tip # lookup.head.hash

C11_Witness ==
    /\ pc = "stream"
    /\ caller = "execute"
    /\ fcConsulted
    /\ requested
    /\ \A n \in DOMAIN dbAtEntry.CanonicalHeaders : n <= input
    /\ tip = forkchoice

----------------------------------------------------------------------------
(* Properties of HeaderStage::unwind *)

Unwound == pc = "unwound" /\ result.kind = "Unwound"

\* The rows of table at or below block are those of before, number taking a key or a
\* value to its block number
KeptUpTo(table, before, block, number(_, _)) ==
    /\ DOMAIN table \subseteq DOMAIN before
    /\ \A k \in DOMAIN before :
          number(k, before[k]) <= block => k \in DOMAIN table /\ table[k] = before[k]

NumberOfValue(k, v) == v

NumberOfKey(k, v) == k

NumberOfNumHash(k, v) == k[1]

\* C12: when HeaderStage::unwind(unwind_to) has returned, HeaderNumbers (by value),
\* CanonicalHeaders, Headers and HeaderTD (by key number) hold no entry with a block
\* number above unwind_to, every entry at or below unwind_to is as it was before the
\* call, and the returned stage_progress is unwind_to
C12_UnwindRemovesAbove ==
    Unwound =>
        /\ NoEntryAbove(tx, input)
        /\ KeptUpTo(tx.HeaderNumbers, db.HeaderNumbers, input, NumberOfValue)
        /\ KeptUpTo(tx.CanonicalHeaders, db.CanonicalHeaders, input, NumberOfKey)
        /\ KeptUpTo(tx.Headers, db.Headers, input, NumberOfNumHash)
        /\ KeptUpTo(tx.HeaderTD, db.HeaderTD, input, NumberOfNumHash)
        /\ result.stage_progress = input

C12_Witness ==
    /\ Unwound
    /\ input >= 1
    /\ \E h \in DOMAIN db.HeaderNumbers : db.HeaderNumbers[h] > input
    /\ \E n \in DOMAIN db.CanonicalHeaders : n > input
    /\ \E k \in DOMAIN db.Headers : k[1] > input
    /\ \E k \in DOMAIN db.HeaderTD : k[1] > input
    /\ tx # db

----------------------------------------------------------------------------
(* Re-entry of HeaderStage::execute after an interruption *)

\* The re-entered execute has returned, and not with an error of the downloader
ReenteredReturn ==
    /\ pc = "returned"
    /\ caller = "execute"
    /\ resume # NoResult
    /\ result.kind \notin {"Recoverable", "Validation", "Download"}

\* C14 as stated: execute interrupted at any of its commit boundaries, the one before
\* the total difficulty pass included, and entered again with the persisted progress
\* ends with the tables and the output of the uninterrupted run.
C14_AsStated ==
    ReenteredReturn => result = resume.result /\ tx = resume.db

\* Interrupted only at commit boundaries that leave headers to download, the
\* re-entered execute ends as the uninterrupted run does
ReentryBeforeLastCommit ==
    (ReenteredReturn /\ ~resume.last) => result = resume.result /\ tx = resume.db

ReentryWitness ==
    ReenteredReturn /\ ~resume.last /\ result.kind = "Ok"

----------------------------------------------------------------------------
(* Properties of the Senders stage *)

SendersReturned == spc = "returned"

SendersReturnedOk == spc = "returned" /\ sresult.kind = "Ok"

\* max_block of the running execute, from its input
MaxBlockOf(progress_in) == Min2(previous_stage_progress, progress_in + commit_threshold)

\* C15: with max_block = min(previous_stage_progress, stage_progress + commit_threshold),
\* if max_block <= stage_progress then execute returns done = true with the
\* stage_progress of its input, has looked up no block body and has written nothing
C15_NoWork ==
    (SendersReturned /\ MaxBlockOf(sinput) <= sinput) =>
        /\ sresult.kind = "Ok"
        /\ sresult.done
        /\ sresult.stage_progress = sinput
        /\ bodyReads = 0
        /\ ~walked
        /\ stx = sdbAtEntry
        /\ sdb = sdbAtEntry

C15_Witness ==
    /\ SendersReturned
    /\ previous_stage_progress < sinput
    /\ sinput + 1 \in DOMAIN sdb.BlockBodies
    /\ sdb.BlockBodies[sinput + 1].tx_count > 0

\* The running execute had work: max_block > stage_progress
HadWork == MaxBlockOf(sinput) > sinput

\* C16 as stated: every Ok result of execute that had work, whether or not the block
\* range holds a transaction, has stage_progress = max_block, done = (max_block >=
\* previous_stage_progress) and reached_tip = done.
C16_AsStated ==
    (SendersReturnedOk /\ HadWork) =>
        /\ sresult.stage_progress = MaxBlockOf(sinput)
        /\ sresult.done = (MaxBlockOf(sinput) >= previous_stage_progress)
        /\ sresult.reached_tip = sresult.done

\* What of it holds: the progress is max_block and reached_tip = done on every Ok
\* result, and done follows the formula when Transactions was walked
OutputAfterWalk ==
    (SendersReturnedOk /\ HadWork) =>
        /\ sresult.stage_progress = MaxBlockOf(sinput)
        /\ sresult.reached_tip = sresult.done
        /\ walked => sresult.done = (MaxBlockOf(sinput) >= previous_stage_progress)

\* TxSenders of t holds exactly the signers of the transactions 0..last
SendersFilledTo(t, last) ==
    /\ DOMAIN t.TxSenders = 0..last
    /\ \A id \in 0..last :
          /\ id \in DOMAIN t.Transactions
          /\ RecoverSigner(t.Transactions[id]) = Some(t.TxSenders[id])

\* C17 as stated: when the stage, entered with stage_progress <= n =
\* previous_stage_progress over the seeded body range, has run to completion (execute
\* has returned done = true), TxSenders holds exactly one row for every transaction
\* index in [0, last_tx_index(BlockBodies(n))], each the signer recovered from the
\* Transactions row of that index, and no row above.
C17_AsStated ==
    (SendersReturnedOk /\ sresult.done /\ sinput <= previous_stage_progress) =>
        SendersFilledTo(stx, LastTxIndex(stx.BlockBodies[previous_stage_progress]))

\* What of it holds: the rows are exactly those up to the last transaction of the
\* block execute returned as its progress
SendersFilledToOutput ==
    (SendersReturnedOk /\ sinput <= previous_stage_progress) =>
        SendersFilledTo(stx, LastTxIndex(stx.BlockBodies[sresult.stage_progress]))

SendersUnwound == spc = "unwound" /\ sresult.kind = "Unwound"

\* C18: when SendersStage::unwind(unwind_to) has returned, TxSenders holds no row
\* with a key above the last transaction index of block unwind_to, every row at or
\* below it is as it was before the call, no other table is modified, and the
\* returned stage_progress is unwind_to
C18_SendersUnwind ==
    SendersUnwound =>
        LET last == LastTxIndex(sdb.BlockBodies[sinput])
        IN  /\ \A k \in DOMAIN stx.TxSenders : k <= last
            /\ KeptUpTo(stx.TxSenders, sdb.TxSenders, last, NumberOfKey)
            /\ stx.BlockBodies = sdb.BlockBodies
            /\ stx.Transactions = sdb.Transactions
            /\ sresult.stage_progress = sinput

C18_Witness ==
    /\ SendersUnwound
    /\ \E k \in DOMAIN sdb.TxSenders : k > LastTxIndex(sdb.BlockBodies[sinput])
    /\ \E k \in DOMAIN sdb.TxSenders : k <= LastTxIndex(sdb.BlockBodies[sinput])
    /\ stx # sdb

\* The transaction indices the running execute walks
WalkedRange == {k \in DOMAIN sdbAtEntry.Transactions :
                    start_tx_index <= k /\ k <= end_tx_index}

RecoveryFails(id) == ~RecoverSigner(sdbAtEntry.Transactions[id]).some

\* The indices of the chunk of batch_size entries that holds id
BatchOf(id) ==
    {k \in WalkedRange :
        (k - start_tx_index) \div batch_size = (id - start_tx_index) \div batch_size}

\* C19: if signer recovery fails for a transaction of the walked range, execute
\* returns StageError::Fatal wrapping SenderRecovery { tx }, tx being the index of a
\* transaction of the range whose recovery failed, and TxSenders holds no signer of
\* the batch that transaction is in
C19_RecoveryFailure ==
    (SendersReturned /\ walked /\ \E id \in WalkedRange : RecoveryFails(id)) =>
        /\ sresult.kind = "Fatal"
        /\ sresult.error.kind = "SenderRecovery"
        /\ sresult.error.tx \in WalkedRange
        /\ RecoveryFails(sresult.error.tx)
        /\ \A k \in BatchOf(sresult.error.tx) : k \notin DOMAIN stx.TxSenders

\* Recovery failed for two transactions of a batch, the error names the second, and
\* the range has a third transaction
C19_Witness ==
    /\ SendersReturned
    /\ walked
    /\ sresult.kind = "Fatal"
    /\ \E id \in BatchOf(sresult.error.tx) : id < sresult.error.tx /\ RecoveryFails(id)
    /\ WalkedRange # BatchOf(sresult.error.tx)

\* C20 as stated: entered with stage_progress <= previous_stage_progress = n and
\* entered again with the returned progress while done = false, execute returns
\* done = false only with the progress advanced by exactly commit_threshold (and still
\* below n, so the calls end), and returns done = true only with stage_progress = n.
C20_AsStated ==
    (SendersReturnedOk /\ sinput <= previous_stage_progress) =>
        IF sresult.done
        THEN sresult.stage_progress = previous_stage_progress
        ELSE /\ sresult.stage_progress = sinput + commit_threshold
             /\ sresult.stage_progress < previous_stage_progress

\* What of it holds: a call that returns done = false has advanced the progress by
\* exactly commit_threshold and is below n; the calls end
AdvanceWhileNotDone ==
    (SendersReturnedOk /\ sinput <= previous_stage_progress /\ ~sresult.done) =>
        /\ sresult.stage_progress = sinput + commit_threshold
        /\ sresult.stage_progress < previous_stage_progress

----------------------------------------------------------------------------
(* Execute followed by unwind to the progress execute was entered with *)

\* unwind has returned, called with unwind_to = the input progress of the execute
\* that committed just before it
HeadersUndone == Unwound /\ undo # NoResult /\ input = undo.progress

SendersUndone == SendersUnwound /\ sundo # NoResult /\ sinput = sundo.progress

\* C13 as stated: for the Headers stage and for the Senders stage, a successful
\* execute from progress p followed by unwind(unwind_to = p) leaves every table with
\* its contents of before the execute, whatever database the execute was entered
\* with, a canonical chain with a gap above p included.
C13_AsStated ==
    /\ HeadersUndone => tx = undo.db
    /\ SendersUndone => stx = sundo.db

\* C13 amended: the same, for the Headers stage when no header table held an entry
\* above p before the execute
C13_ExecuteUnwindRestores ==
    /\ (HeadersUndone /\ NoEntryAbove(undo.db, undo.progress)) => tx = undo.db
    /\ SendersUndone => stx = sundo.db

C13_Witness ==
    /\ HeadersUndone
    /\ NoEntryAbove(undo.db, undo.progress)
    /\ ~NoEntryAbove(db, undo.progress)
    /\ tx = undo.db

\* The same case for the Senders stage
SendersUndoneWitness ==
    /\ SendersUndone
    /\ sdb # sundo.db
    /\ stx = sundo.db

----------------------------------------------------------------------------
(* Properties of the parked pool *)

\* The records of the ordered set
BestRecords == {best[i] : i \in 1..Len(best)}

\* C21: after any sequence of add_transaction and remove_transaction calls, by_id and
\* best hold exactly the same records and have the same size
C21_Bijection ==
    pool_pc # "off" =>
        /\ BestRecords = {by_id[id] : id \in DOMAIN by_id}
        /\ Len(best) = Cardinality(DOMAIN by_id)

\* Two records of equal priority are in the pool after an add, a remove and an add
C21_Witness ==
    /\ ordering = "QueuedOrd"
    /\ Len(best) = 2
    /\ submission_id = 3
    /\ last_call.op = "add_transaction"

\* C22: the ordered set is ordered by priority and, among records of equal priority, by
\* the submission id, so records of equal priority are in the order they were inserted
C22_AsStated ==
    pool_pc # "off" =>
        \A i, j \in 1..Len(best) :
            i < j =>
                LET priority == TransactionCmp(best[i].transaction, best[j].transaction)
                IN  /\ priority # "Greater"
                    /\ priority = "Equal" => best[i].submission_id < best[j].submission_id

\* C23: add_transaction with an identifier already in the pool panics, and by_id, best
\* and the submission counter are as before the call
C23_DuplicatePanics ==
    (last_call.op = "add_transaction" /\ last_call.id \in DOMAIN last_call.known) =>
        /\ pool_pc = "panicked"
        /\ by_id = last_call.before.by_id
        /\ best = last_call.before.best
        /\ submission_id = last_call.before.submission_id

\* A transaction is added under an identifier that holds another transaction, next to
\* a second record
C23_Witness ==
    /\ pool_pc = "panicked"
    /\ last_call.id \in DOMAIN last_call.known
    /\ last_call.known[last_call.id] # last_call.tx
    /\ Len(best) = 2

\* The ordered set without the record of the identifier
BestWithout(set, id) == SelectSeq(set, LAMBDA e : Unwrap(e.transaction).id # id)

\* C24: remove_transaction(id) returns the transaction inserted under id and removes
\* exactly its record from by_id and best when id is present; it returns none and leaves
\* the pool unchanged when id is absent; all other records stay in place
C24_Remove ==
    last_call.op = "remove_transaction" =>
        LET id == last_call.id
            before == last_call.before
        IN  IF id \in DOMAIN last_call.known
            THEN /\ last_call.returned = Some(last_call.known[id])
                 /\ DOMAIN by_id = DOMAIN before.by_id \ {id}
                 /\ \A k \in DOMAIN by_id : by_id[k] = before.by_id[k]
                 /\ best = BestWithout(before.best, id)
                 /\ Len(best) = Len(before.best) - 1
                 /\ submission_id = before.submission_id
            ELSE /\ last_call.returned = None
                 /\ Pool = before

\* The first of two records of the ordered set is removed
C24_Witness ==
    /\ last_call.op = "remove_transaction"
    /\ last_call.returned.some
    /\ Len(last_call.before.best) = 2
    /\ Unwrap(last_call.before.best[1].transaction).id = last_call.id
    /\ Len(best) = 1

\* An absent identifier is removed from a pool that holds a record
C24_AbsentWitness ==
    /\ last_call.op = "remove_transaction"
    /\ ~last_call.returned.some
    /\ Len(best) = 1

----------------------------------------------------------------------------
(* Properties of the request errors *)

\* C25: is_retryable is true exactly for Timeout and ConnectionDropped and false for
\* UnsupportedCapability, BadResponse, ChannelClosed and NotConnected, which are all
\* the variants there are
C25_Retryable ==
    /\ RequestErrors = {"Timeout", "ConnectionDropped", "UnsupportedCapability",
                        "BadResponse", "ChannelClosed", "NotConnected"}
    /\ \A i \in 1..Len(outcomes) :
        /\ outcomes[i].error \in {"Timeout", "ConnectionDropped"} => outcomes[i].retryable
        /\ outcomes[i].error \in {"UnsupportedCapability", "BadResponse", "ChannelClosed",
                                   "NotConnected"} => ~outcomes[i].retryable

\* A timeout, a dropped connection and a closed channel have been classified
C25_Witness ==
    /\ Len(outcomes) = 3
    /\ outcomes[1].error = "Timeout"
    /\ outcomes[2].error = "ConnectionDropped"
    /\ outcomes[3].from = "send"

----------------------------------------------------------------------------
(* Properties of the progress the stages return *)

\* C26: the progress SendersStage::execute returns does not exceed
\* previous_stage_progress when the input stage_progress does not exceed it; when the
\* input already exceeds it, execute returns the input progress and writes nothing
C26_ProgressBelowPrevious ==
    SendersReturned =>
        /\ (sinput <= previous_stage_progress /\ sresult.kind = "Ok") =>
                sresult.stage_progress <= previous_stage_progress
        /\ sinput > previous_stage_progress =>
                /\ sresult.kind = "Ok"
                /\ sresult.stage_progress = sinput
                /\ stx = sdbAtEntry
                /\ sdb = sdbAtEntry

\* execute walked transactions and returned the progress of the previous stage
C26_Witness ==
    /\ SendersReturnedOk
    /\ walked
    /\ sinput < previous_stage_progress
    /\ sresult.stage_progress = previous_stage_progress
    /\ stx # sdbAtEntry

\* execute was entered above the progress of the previous stage, with bodies above
C26_AboveWitness ==
    /\ SendersReturnedOk
    /\ sinput > previous_stage_progress
    /\ sinput + 1 \in DOMAIN sdb.BlockBodies

\* The running execute of the Headers stage took no header from the stream
HeadersNoWork == writes = <<>>

\* C27: every Ok result of execute, of the Headers stage and of the Senders stage, has a
\* stage_progress strictly greater than the input stage_progress, unless the stage
\* returned with no work, and then done = true and the progress is the input progress;
\* the returned progress is never lower than the input progress
C27_ProgressAdvances ==
    /\ ReturnedOk =>
        /\ result.stage_progress >= input
        /\ IF HeadersNoWork
           THEN result.done /\ result.stage_progress = input
           ELSE result.stage_progress > input
    /\ SendersReturnedOk =>
        /\ sresult.stage_progress >= sinput
        /\ IF HadWork
           THEN sresult.stage_progress > sinput
           ELSE sresult.done /\ sresult.stage_progress = sinput

\* The Headers stage returned Ok after two chunks
C27_Witness ==
    /\ ReturnedOk
    /\ Len(writes) = 2
    /\ result.stage_progress > input + 1

\* The Senders stage returned Ok with work, and without
C27_SendersWitness ==
    /\ SendersReturnedOk
    /\ HadWork
    /\ walked

C27_NoWorkWitness ==
    /\ SendersReturnedOk
    /\ ~HadWork
    /\ sinput = previous_stage_progress

----------------------------------------------------------------------------
(* Properties of the suspension points and of the writes of the Headers stage *)

\* The stage is suspended: it awaits a forkchoice update or a chunk of the stream
Suspended == pc \in {"await_fc", "stream"}

\* C28 as stated: whenever the Headers stage is suspended, awaiting a downloader chunk or
\* a forkchoice update, it holds no open database cursor
C28_AsStated == Suspended => cursors = {}

\* While the stage awaits a chunk of the stream it holds no cursor
ChunkAwaitHoldsNoCursor == pc = "stream" => cursors = {}

\* The keys the running execute has written, in the order written
RECURSIVE Flatten(_)
Flatten(seqs) == IF seqs = <<>> THEN <<>> ELSE Head(seqs) \o Flatten(Tail(seqs))

\* An append-only cursor would accept the writes, made in this order, into a table that
\* starts with the keys of before
AppendWouldAccept(before, written) ==
    \A j \in 1..Len(written) :
        /\ \A k \in before : KeyLess(k, written[j])
        /\ \A i \in 1..(j - 1) : KeyLess(written[i], written[j])

\* C29 as stated: every key the Headers stage writes to Headers and to CanonicalHeaders
\* during one execute is strictly greater than every key already in that table at the
\* moment of the write, across all chunks of the stream
C29_AsStated ==
    pc \in {"stream", "returned"} =>
        /\ AppendWouldAccept(DOMAIN dbAtEntry.Headers, Flatten(writes))
        /\ AppendWouldAccept({<<n, ZeroHash>> : n \in DOMAIN dbAtEntry.CanonicalHeaders},
                             [i \in 1..Len(Flatten(writes)) |->
                                <<Flatten(writes)[i][1], ZeroHash>>])

\* C29, amended: within one chunk every key written to Headers and to CanonicalHeaders
\* is strictly greater than the keys written before it in that chunk; from chunk to
\* chunk of the descending stream the keys descend, every key of a chunk is lower than
\* every key of the chunks written before it; the keys written are the rows the tables
\* gained
C29_AscendingWithinChunk ==
    pc \in {"stream", "returned"} =>
        /\ \A c \in 1..Len(writes) :
            \A i, j \in 1..Len(writes[c]) :
                i < j => /\ KeyLess(writes[c][i], writes[c][j])
                         /\ writes[c][i][1] < writes[c][j][1]
        /\ \A c, d \in 1..Len(writes) :
            c < d => \A i \in 1..Len(writes[c]) : \A j \in 1..Len(writes[d]) :
                        /\ KeyLess(writes[d][j], writes[c][i])
                        /\ writes[d][j][1] < writes[c][i][1]
        /\ LET written == {Flatten(writes)[i] : i \in 1..Len(Flatten(writes))}
           IN  /\ DOMAIN tx.Headers = DOMAIN dbAtEntry.Headers \cup written
               /\ DOMAIN tx.CanonicalHeaders =
                    DOMAIN dbAtEntry.CanonicalHeaders \cup {k[1] : k \in written}

\* Two chunks have been written, the first of them with two headers
C29_Witness ==
    /\ pc = "stream"
    /\ Len(writes) = 2
    /\ Len(writes[1]) = 2

\* The last chunk taken from the stream holds headers only
LastChunkCollected == \A i \in 1..Len(lastChunk) : lastChunk[i].ok

\* The adjacent pairs (child, parent) of the last chunk that are not linked
UnlinkedPairs ==
    {i \in 1..(Len(lastChunk) - 1) :
        \/ lastChunk[i].header.parent_hash # lastChunk[i + 1].header.hash
        \/ lastChunk[i].header.number # lastChunk[i + 1].header.number + 1}

\* C30: the Headers stage writes a chunk only if every adjacent pair (child, parent) of
\* it satisfies child.parent_hash = hash(parent) and child.number = parent.number + 1;
\* if a pair fails, execute returns an error and has neither written nor committed a
\* header of that chunk
C30_UnlinkedChunkRejected ==
    (pc \in {"stream", "returned"} /\ chunks >= 1 /\ LastChunkCollected) =>
        /\ UnlinkedPairs # {} =>
            /\ ReturnedErr
            /\ result.kind = "Download"
            /\ tx = txAtChunk
            /\ db = txAtChunk
            /\ commits = chunks - 1
        /\ (pc = "stream" /\ tx # txAtChunk) => UnlinkedPairs = {}

\* The second chunk is rejected for a parent hash that does not match, after the first
\* chunk was committed
C30_Witness ==
    /\ ReturnedErr
    /\ chunks = 2
    /\ commits = 1
    /\ LastChunkCollected
    /\ \E i \in UnlinkedPairs :
        /\ lastChunk[i].header.number = lastChunk[i + 1].header.number + 1
        /\ lastChunk[i].header.parent_hash # lastChunk[i + 1].header.hash

\* A chunk is rejected for a block number that does not follow, the parent hash matching
C30_NumberWitness ==
    /\ ReturnedErr
    /\ LastChunkCollected
    /\ \E i \in UnlinkedPairs :
        /\ lastChunk[i].header.number # lastChunk[i + 1].header.number + 1
        /\ lastChunk[i].header.parent_hash = lastChunk[i + 1].header.hash

\* A linked chunk is written while the header after it does not link to it
C30_WrittenWitness ==
    /\ pc = "stream"
    /\ chunks = 1
    /\ commits = 1
    /\ Len(lastChunk) = 2
    /\ UnlinkedPairs = {}
    /\ tx # txAtChunk
    /\ stream # <<>>
    /\ stream[1].ok
    /\ stream[1].header.hash # lastChunk[2].header.parent_hash

----------------------------------------------------------------------------
(* Properties of the total-difficulty pass and of the commits of the Headers stage *)

\* execute returned from its total-difficulty pass: the stream ended without an error.
\* The tables of the transaction before the pass are the committed ones
TdPassRan == pc = "returned" /\ requested /\ commits = chunks

\* The Headers rows from block number head.number + 1 on, in key order
RowsAboveHead == SortedKeys({k \in DOMAIN tx.Headers : k[1] >= head.number + 1})

RECURSIVE DifficultyUpTo(_, _)
DifficultyUpTo(keys, i) ==
    IF i = 0 THEN 0 ELSE DifficultyUpTo(keys, i - 1) + tx.Headers[keys[i]].difficulty

\* C31: the total-difficulty pass adds one HeaderTD row for each Headers row from block
\* number head.number + 1 to the end of the table, in ascending key order, each equal to
\* the total difficulty of the head plus the difficulties of the rows walked so far, and
\* it neither overwrites nor deletes a HeaderTD row that was there before the pass
C31_TdPassAppends ==
    /\ TdPassRan =>
        \A k \in DOMAIN db.HeaderTD :
            k \in DOMAIN tx.HeaderTD /\ tx.HeaderTD[k] = db.HeaderTD[k]
    /\ ReturnedOk =>
        /\ tx.Headers = db.Headers
        /\ DOMAIN tx.HeaderTD =
                DOMAIN db.HeaderTD \cup {RowsAboveHead[i] : i \in 1..Len(RowsAboveHead)}
        /\ \A i \in 1..Len(RowsAboveHead) :
            /\ RowsAboveHead[i] \notin DOMAIN db.HeaderTD
            /\ \A k \in DOMAIN db.HeaderTD : KeyLess(k, RowsAboveHead[i])
            /\ tx.HeaderTD[RowsAboveHead[i]] =
                    db.HeaderTD[<<head.number, head.hash>>]
                        + DifficultyUpTo(RowsAboveHead, i)

\* The pass walked rows of two chunks and rows that were there before the execute
C31_Witness ==
    /\ ReturnedOk
    /\ commits >= 1
    /\ Len(RowsAboveHead) >= 3
    /\ \E i \in 1..Len(RowsAboveHead) : RowsAboveHead[i] \in DOMAIN dbAtEntry.Headers
    /\ head.number >= 1

\* The rows the last chunk wrote are in the three header tables of t
LastChunkRowsIn(t) ==
    \A i \in 1..Len(writes[Len(writes)]) :
        LET key == writes[Len(writes)][i]
        IN  /\ key \in DOMAIN t.Headers
            /\ key[1] \in DOMAIN t.CanonicalHeaders
            /\ key[2] \in DOMAIN t.HeaderNumbers

\* C32: execute commits exactly once per chunk, right after the rows of the chunk are
\* written to HeaderNumbers, Headers and CanonicalHeaders; it commits nothing on an
\* error path, does not commit the HeaderTD rows of the total-difficulty pass, and the
\* pipeline does not get control between two chunks
C32_CommitPerChunk ==
    /\ pc = "stream" =>
        /\ commits = chunks
        /\ Len(writes) = chunks
        /\ db = tx
        /\ chunks >= 1 => LastChunkRowsIn(db)
        /\ progress = input
    /\ (ReturnedErr /\ requested) =>
        /\ commits \in {chunks, chunks - 1}
        /\ commits = chunks - 1 => db = txAtChunk
        /\ commits = chunks => Restrict(tx, {"CanonicalHeaders", "HeaderNumbers", "Headers"})
                                = Restrict(db, {"CanonicalHeaders", "HeaderNumbers", "Headers"})
        /\ db.HeaderTD = dbAtEntry.HeaderTD
        /\ progress = input
    /\ ReturnedOk =>
        /\ commits = chunks
        /\ chunks >= 1
        /\ LastChunkRowsIn(db)
        /\ db.HeaderTD = dbAtEntry.HeaderTD
        /\ tx.HeaderTD # db.HeaderTD
        /\ progress = input

\* execute returned Ok after two chunk commits, the rows of the pass uncommitted
C32_Witness ==
    /\ ReturnedOk
    /\ commits = 2
    /\ \E k \in DOMAIN tx.HeaderTD : k \notin DOMAIN db.HeaderTD

\* execute returned an error from its second chunk
C32_ErrorWitness ==
    /\ ReturnedErr
    /\ chunks = 2
    /\ commits = 1
    /\ db # dbAtEntry

----------------------------------------------------------------------------
(* Properties of the writes of the Senders stage *)

\* SendersStage::execute is running or has returned
SendersExecuting == spc \in {"walk", "returned"}

\* C33: SendersStage::execute modifies no table other than TxSenders, deletes no row,
\* never commits, and leaves every TxSenders row below the first transaction index of
\* block stage_progress + 1 unchanged
C33_SendersFrame ==
    SendersExecuting =>
        /\ stx.BlockBodies = sdbAtEntry.BlockBodies
        /\ stx.Transactions = sdbAtEntry.Transactions
        /\ sdb = sdbAtEntry
        /\ \A id \in DOMAIN sdbAtEntry.TxSenders :
            /\ id \in DOMAIN stx.TxSenders
            /\ stx.TxSenders[id] = sdbAtEntry.TxSenders[id]
        /\ \A id \in DOMAIN stx.TxSenders :
            (sinput + 1 \in DOMAIN sdbAtEntry.BlockBodies
                /\ id < sdbAtEntry.BlockBodies[sinput + 1].start_tx_id) =>
                    /\ id \in DOMAIN sdbAtEntry.TxSenders
                    /\ stx.TxSenders[id] = sdbAtEntry.TxSenders[id]

\* execute appended signers above rows that were there on entry
C33_Witness ==
    /\ SendersReturnedOk
    /\ walked
    /\ DOMAIN sdbAtEntry.TxSenders # {}
    /\ DOMAIN stx.TxSenders # DOMAIN sdbAtEntry.TxSenders
    /\ sdbAtEntry.BlockBodies[sinput + 1].start_tx_id >= 1

\* C34: whatever order the parallel workers finish signer recovery in, execute appends
\* the (tx_index, signer) pairs to TxSenders in strictly ascending tx_index order, none of
\* the appends is refused, the pairs appended are the rows the table gained, and no pair
\* of a batch is appended before every recovery of that batch has completed
C34_OrderedAppend ==
    /\ \A i \in 1..Len(sappends) :
        /\ i > 1 => sappends[i - 1].key < sappends[i].key
        /\ {sappends[i].done[k] : k \in 1..Len(sappends[i].done)} = 1..sappends[i].batch
    /\ SendersExecuting =>
        /\ {sappends[i].key : i \in 1..Len(sappends)} =
                DOMAIN stx.TxSenders \ DOMAIN sdbAtEntry.TxSenders
        /\ sresult # NoResult => sresult.kind # "Database"

\* a batch whose last entry was recovered first has been appended
C34_Witness ==
    /\ SendersReturnedOk
    /\ \E i \in 1..Len(sappends) :
        /\ i > 1
        /\ sappends[i].batch > 1
        /\ sappends[i].done[1] = sappends[i].batch

----------------------------------------------------------------------------
(* Properties of the canonical chain the Headers stage leaves *)

\* The canonical header at n is stored and its parent is the canonical header at n - 1
LinkedAt(t, n) ==
    /\ n \in DOMAIN t.CanonicalHeaders
    /\ n - 1 \in DOMAIN t.CanonicalHeaders
    /\ <<n, t.CanonicalHeaders[n]>> \in DOMAIN t.Headers
    /\ t.Headers[<<n, t.CanonicalHeaders[n]>>].parent_hash = t.CanonicalHeaders[n - 1]

\* C35: after a successful execute from head p to progress q the canonical headers
\* form one chain: for every n with p < n <= q the parent_hash of the canonical header
\* at n equals CanonicalHeaders(n - 1), across chunk boundaries and between the lowest
\* downloaded header and the head, for any downloader output whose chunks each pass
\* the response validation of the stage
C35_AsStated ==
    ReturnedOk => \A n \in (input + 1)..result.stage_progress : LinkedAt(tx, n)

----------------------------------------------------------------------------
(* Properties of the Senders stage under its parameters *)

\* The TxSenders one execute leaves that takes the range from the seed to previous in
\* one walk and one chunk
OneRun(seed, previous) ==
    IF previous <= seed.progress THEN seed.db.TxSenders
    ELSE LET start == seed.db.BlockBodies[seed.progress + 1].start_tx_id
             end == LastTxIndex(seed.db.BlockBodies[previous])
             walk == WalkFrom(seed.db.Transactions, start, end)
             recovered == [i \in 1..Len(walk) |->
                              <<walk[i][1], RecoverSigner(walk[i][2]).val>>]
         IN  AppendSenders(seed.db, recovered, 1).tx.TxSenders

\* The stage has been entered until its progress is that of the stage before it
SendersCaughtUp == spc = "idle" /\ sprogress = previous_stage_progress

\* C36: the contents of TxSenders after the Senders stage has been re-entered until its
\* progress equals previous_stage_progress do not depend on batch_size (>= 1) or
\* commit_threshold (>= 1): under every choice of them the table is the one a single
\* uninterrupted run leaves
C36_SameTable ==
    SendersCaughtUp => sdb.TxSenders = OneRun(sseed, previous_stage_progress)

\* the stage caught up in more than one execute, each of more than one chunk
C36_Witness ==
    /\ SendersCaughtUp
    /\ commit_threshold = 1
    /\ batch_size = 1
    /\ previous_stage_progress >= sseed.progress + 2
    /\ Cardinality(DOMAIN sdb.TxSenders) >= Cardinality(DOMAIN sseed.db.TxSenders) + 3

\* the stage caught up in one execute over more than one block
C36_OneRunWitness ==
    /\ SendersCaughtUp
    /\ commit_threshold >= 2
    /\ batch_size >= 2
    /\ previous_stage_progress >= sseed.progress + 2
    /\ Cardinality(DOMAIN sdb.TxSenders) >= Cardinality(DOMAIN sseed.db.TxSenders) + 3

----------------------------------------------------------------------------
(* Properties of the wait for a forkchoice update *)

\* execute is suspended in next_fork_choice_state
Waiting == pc = "await_fc"

\* The channel holds a non-zero head hash other than that of the current head
Publishable == forkchoice # ZeroHash /\ forkchoice # head.hash

\* The wait does not end while the channel is closed over a value that is the zero
\* hash or the hash of the head, neither with a value nor with an error
ClosedWaitNeverEnds ==
    [][(Waiting /\ fcClosed /\ ~Publishable) =>
            (Waiting' /\ result' = result /\ tip' = tip)]_vars

\* The turns of the loop that the fairness condition of SpecForkchoice is about are
\* the steps of ForkchoiceChanged
TurnsAreForkchoiceChanged ==
    [][(ForkchoiceTurn /\ <<pc, fcUnseen>>' # <<pc, fcUnseen>>) <=>
       (ForkchoiceChanged /\ vars' # vars)]_vars

\* C37 as stated: once the channel has published a non-zero head hash other than the
\* current head to the waiting stage, the wait eventually ends; and the wait never ends
\* on a closed channel that holds no such value.
C37_AsStated ==
    /\ (Waiting /\ fcUnseen /\ Publishable) ~> ~Waiting
    /\ ClosedWaitNeverEnds

\* C37: a non-zero head hash other than the current head, published to the waiting
\* stage, eventually ends the wait unless a later update replaces it by a zero hash or
\* by the hash of the head before the stage has looked; the wait ends only with the
\* value the channel holds then, whatever updates came before it; on a closed channel
\* that holds no such value the wait ends neither with a value nor with an error
C37_WaitEnds ==
    /\ (Waiting /\ fcUnseen /\ Publishable) ~> (~Waiting \/ ~Publishable)
    /\ [][(Waiting /\ ~Waiting') =>
            (Publishable /\ forkchoice' = forkchoice /\
             (caller = "execute" => tip' = forkchoice))]_vars
    /\ ClosedWaitNeverEnds

\* the wait ended with the value the channel holds
C37_Witness ==
    /\ pc = "stream"
    /\ requested
    /\ fcConsulted
    /\ tip = forkchoice
    /\ Publishable

\* the stage waits on a closed channel that holds the hash of its head
C37_ClosedWitness ==
    /\ Waiting
    /\ fcClosed
    /\ ~fcUnseen
    /\ fcPublished
    /\ forkchoice = head.hash

----------------------------------------------------------------------------
(* Properties of the unwind after a Validation error *)

\* The pipeline has unwound the Headers stage after a Validation error of execute;
\* progress is still the stage_progress execute was entered with
ValidationUnwound == pc = "unwound" /\ caller = "validation"

\* Every row of block number n or below that was committed before the unwind is kept
RowsKeptUpTo(n) ==
    /\ \A k \in DOMAIN dbAtEntry.CanonicalHeaders :
        k <= n => (k \in DOMAIN tx.CanonicalHeaders /\
                   tx.CanonicalHeaders[k] = dbAtEntry.CanonicalHeaders[k])
    /\ \A k \in DOMAIN dbAtEntry.Headers :
        k[1] <= n => (k \in DOMAIN tx.Headers /\ tx.Headers[k] = dbAtEntry.Headers[k])
    /\ \A k \in DOMAIN dbAtEntry.HeaderTD :
        k[1] <= n => (k \in DOMAIN tx.HeaderTD /\ tx.HeaderTD[k] = dbAtEntry.HeaderTD[k])
    /\ \A h \in DOMAIN dbAtEntry.HeaderNumbers :
        dbAtEntry.HeaderNumbers[h] <= n =>
            (h \in DOMAIN tx.HeaderNumbers /\
             tx.HeaderNumbers[h] = dbAtEntry.HeaderNumbers[h])

\* C38 as stated: when the pipeline reacts to a Validation error of the Headers stage
\* by unwinding to block - 1, the target is well defined for every stage_progress,
\* 0 included (no underflow), and the unwind removes no row at or below the input
\* stage_progress of the stage, so that the canonical head and its total difficulty at
\* that progress are still there for the retry.
C38_AsStated ==
    /\ pc # "panicked"
    /\ ValidationUnwound =>
        /\ input + 1 = progress
        /\ RowsKeptUpTo(progress)
        /\ progress \in DOMAIN tx.CanonicalHeaders
        /\ <<progress, tx.CanonicalHeaders[progress]>> \in DOMAIN tx.HeaderTD

\* C38 as stated, for an input stage_progress of 1 or more, where block - 1 does not
\* underflow
C38_AboveGenesis ==
    (ValidationUnwound /\ progress >= 1) =>
        /\ input + 1 = progress
        /\ RowsKeptUpTo(progress)

====
